---- MODULE Spec2Model ----
(***************************************************************************)
(* Model of the vcf-validator core: MetaEntry construction                 *)
(* (src/src/vcf/meta_entry.cpp) and the optional validation policy         *)
(* (src/src/vcf/validate_optional_policy.cpp).                             *)
(*                                                                         *)
(* A std::string is a sequence of one-character strings, so that the       *)
(* character-level tests of the code (isdigit, '\n', ',', alternate[0],    *)
(* the <...> pattern, the splits on ':' and '|/') are computed and not     *)
(* assumed.  A std::map<string,string> is a function whose domain is the   *)
(* set of keys present.  A thrown exception is a returned diagnostic.      *)
(***************************************************************************)
EXTENDS Integers, Sequences, FiniteSets, TLC

VARIABLES
    phase,              \* driver position: "meta", "body" or "done"
    n_records,          \* driver position: body lines read so far
    n_lines,            \* ParsingState::n_lines
    source,             \* ParsingState::source (version, ploidy, meta_entries, samples)
    well_defined_meta,  \* ParsingState: set of <<category, id>>
    undefined_meta,     \* ParsingState: set of <<category, id>>
    log,                \* what the report sink has received, in order
    last,               \* the last policy call: its entry point, record and what it threw
    m_entry,            \* MetaEntry under construction (constructor arguments and version)
    m_result,           \* outcome of that construction: "pending", or the diagnostic / NoError
    r_args,             \* Record under construction (constructor arguments and version)
    r_result            \* outcome of that construction: "pending", or the diagnostic / NoError

vars == <<phase, n_records, n_lines, source, well_defined_meta, undefined_meta, log, last,
          m_entry, m_result, r_args, r_result>>

(***************************************************************************)
(* String literals used in more than one place.                            *)
(***************************************************************************)
s_ALT == <<"A", "L", "T">>
s_contig == <<"c", "o", "n", "t", "i", "g">>
s_FILTER == <<"F", "I", "L", "T", "E", "R">>
s_FORMAT == <<"F", "O", "R", "M", "A", "T">>
s_INFO == <<"I", "N", "F", "O">>
s_SAMPLE == <<"S", "A", "M", "P", "L", "E">>
s_reference == <<"r", "e", "f", "e", "r", "e", "n", "c", "e">>
s_ID == <<"I", "D">>
s_Number == <<"N", "u", "m", "b", "e", "r">>
s_Type == <<"T", "y", "p", "e">>
s_Description == <<"D", "e", "s", "c", "r", "i", "p", "t", "i", "o", "n">>
s_Integer == <<"I", "n", "t", "e", "g", "e", "r">>
s_Float == <<"F", "l", "o", "a", "t">>
s_Flag == <<"F", "l", "a", "g">>
s_Character == <<"C", "h", "a", "r", "a", "c", "t", "e", "r">>
s_String == <<"S", "t", "r", "i", "n", "g">>
s_GT == <<"G", "T">>
s_PASS == <<"P", "A", "S", "S">>
s_dot == <<".">>
s_CHROM == <<"C", "H", "R", "O", "M">>

(***************************************************************************)
(* Diagnostics.  Every Error carries a line and a message; body errors     *)
(* that name a column carry the column, and a string value or a numeric    *)
(* expected value.  A message is its fixed text with the inserted strings  *)
(* kept apart (text has one % per inserted string).                        *)
(***************************************************************************)
NoError == [kind |-> "none"]

Message(text, args) == [text |-> text, args |-> args]

Error(kind, line, message, field, value, expected) ==
    [kind |-> kind, line |-> line, message |-> message,
     field |-> field, value |-> value, expected |-> expected]

MetaSectionError(line, message) ==
    Error("MetaSectionError", line, message, <<>>, <<>>, -1)

(***************************************************************************)
(* std::to_string / operator<< of a small unsigned number.                 *)
(***************************************************************************)
Digit(d) == <<"0", "1", "2", "3", "4", "5", "6", "7", "8", "9">>[d + 1]

RECURSIVE to_string(_)
to_string(n) == IF n < 10 THEN <<Digit(n)>> ELSE to_string(n \div 10) \o <<Digit(n % 10)>>

isdigit(c) == c \in {"0", "1", "2", "3", "4", "5", "6", "7", "8", "9"}

\* std::string::find(c): the first index holding c, 0 for npos
find(s, c) ==
    IF \E i \in 1..Len(s) : s[i] = c
    THEN CHOOSE i \in 1..Len(s) : s[i] = c /\ \A j \in 1..(i - 1) : s[j] # c
    ELSE 0

(***************************************************************************)
(* Predefined-tag tables: id -> <<Type, Number>>.  "." means               *)
(* "do not constrain".                                                     *)
(***************************************************************************)
format_v41_v42 ==
    (s_GT :> <<s_String, <<"1">>>>) @@
    (<<"D", "P">> :> <<s_Integer, <<"1">>>>) @@
    (<<"G", "L">> :> <<s_Float, <<"G">>>>) @@
    (<<"F", "T">> :> <<s_String, s_dot>>)

format_v43 ==
    (s_GT :> <<s_String, <<"1">>>>) @@
    (<<"D", "P">> :> <<s_Integer, <<"1">>>>) @@
    (<<"G", "L">> :> <<s_Float, <<"G">>>>) @@
    (<<"F", "T">> :> <<s_String, <<"1">>>>) @@
    (<<"A", "D">> :> <<s_Integer, <<"R">>>>)

info_v41_v42 ==
    (<<"A", "N">> :> <<s_Integer, <<"1">>>>) @@
    (<<"A", "F">> :> <<s_Float, <<"A">>>>) @@
    (<<"D", "P">> :> <<s_Integer, <<"1">>>>)

info_v43 ==
    (<<"A", "N">> :> <<s_Integer, <<"1">>>>) @@
    (<<"A", "F">> :> <<s_Float, <<"A">>>>) @@
    (<<"D", "P">> :> <<s_Integer, <<"1">>>>) @@
    (<<"A", "D">> :> <<s_Integer, <<"R">>>>)

(***************************************************************************)
(* MetaEntryVisitor: the per-tag checks.  Each returns the MetaSectionError *)
(* it throws, or NoError.                                                   *)
(***************************************************************************)
MissingField(line, tag, key) ==
    MetaSectionError(line, Message("% metadata does not contain a field called '%'",
                                   <<tag, key>>))

check_alt(line, value) ==
    IF s_ID \notin DOMAIN value THEN MissingField(line, s_ALT, s_ID)
    ELSE IF s_Description \notin DOMAIN value THEN MissingField(line, s_ALT, s_Description)
    ELSE LET id_field == value[s_ID]
             pos == find(id_field, ":")
             prefix == IF pos = 0 THEN id_field ELSE SubSeq(id_field, 1, pos - 1)
         IN IF /\ prefix # <<"D", "E", "L">>
               /\ prefix # <<"I", "N", "S">>
               /\ prefix # <<"D", "U", "P">>
               /\ prefix # <<"I", "N", "V">>
               /\ prefix # <<"C", "N", "V">>
            THEN MetaSectionError(line,
                     Message("ALT metadata ID does not begin with DEL/INS/DUP/INV/CNV", <<>>))
            ELSE NoError

check_contig(line, value) ==
    IF s_ID \notin DOMAIN value THEN MissingField(line, s_contig, s_ID) ELSE NoError

check_filter(line, value) ==
    IF s_ID \notin DOMAIN value THEN MissingField(line, s_FILTER, s_ID)
    ELSE IF s_Description \notin DOMAIN value
         THEN MissingField(line, s_FILTER, s_Description)
    ELSE NoError

check_sample(line, value) ==
    IF s_ID \notin DOMAIN value THEN MissingField(line, s_SAMPLE, s_ID) ELSE NoError

\* faulty variant: a "." cell of the table taken as a required value
check_predefined_tag_dot_required(line, tag_field, key_field, value, tags) ==
    IF value[s_ID] \in DOMAIN tags
    THEN LET key_value == IF key_field = s_Type THEN tags[value[s_ID]][1]
                                                ELSE tags[value[s_ID]][2]
         IN IF key_value # value[key_field]
            THEN MetaSectionError(line,
                     Message("% % metadata % is not %",
                             <<tag_field, value[s_ID], key_field, key_value>>))
            ELSE NoError
    ELSE NoError

check_predefined_tag(line, tag_field, key_field, value, tags) ==
    IF value[s_ID] \in DOMAIN tags
    THEN LET key_value == IF key_field = s_Type THEN tags[value[s_ID]][1]
                                                ELSE tags[value[s_ID]][2]
         IN IF key_value # s_dot /\ key_value # value[key_field]
            THEN MetaSectionError(line,
                     Message("% % metadata % is not %",
                             <<tag_field, value[s_ID], key_field, key_value>>))
            ELSE NoError
    ELSE NoError

\* the Number test shared by check_format and check_info
BadNumber(number_field) ==
    /\ \E i \in 1..Len(number_field) : ~isdigit(number_field[i])
    /\ number_field # <<"A">>
    /\ number_field # <<"R">>
    /\ number_field # <<"G">>
    /\ number_field # s_dot

\* faulty variant: v4.2 entries checked against the v4.3 table
check_format_v42_with_v43(line, version, value) ==
    IF s_ID \notin DOMAIN value THEN MissingField(line, s_FORMAT, s_ID)
    ELSE IF s_Number \notin DOMAIN value THEN MissingField(line, s_FORMAT, s_Number)
    ELSE IF s_Type \notin DOMAIN value THEN MissingField(line, s_FORMAT, s_Type)
    ELSE IF s_Description \notin DOMAIN value
         THEN MissingField(line, s_FORMAT, s_Description)
    ELSE IF BadNumber(value[s_Number])
         THEN MetaSectionError(line,
                  Message("FORMAT metadata Number is not a number, A, R, G or dot", <<>>))
    ELSE IF value[s_Type] \notin {s_Integer, s_Float, s_Character, s_String}
         THEN MetaSectionError(line,
                  Message("FORMAT metadata Type is not a Integer, Float, Character or String",
                          <<>>))
    ELSE LET tags == IF version = "v41" THEN format_v41_v42 ELSE format_v43
             t == check_predefined_tag(line, s_FORMAT, s_Type, value, tags)
         IN IF t # NoError THEN t
            ELSE check_predefined_tag(line, s_FORMAT, s_Number, value, tags)

check_format(line, version, value) ==
    IF s_ID \notin DOMAIN value THEN MissingField(line, s_FORMAT, s_ID)
    ELSE IF s_Number \notin DOMAIN value THEN MissingField(line, s_FORMAT, s_Number)
    ELSE IF s_Type \notin DOMAIN value THEN MissingField(line, s_FORMAT, s_Type)
    ELSE IF s_Description \notin DOMAIN value
         THEN MissingField(line, s_FORMAT, s_Description)
    ELSE IF BadNumber(value[s_Number])
         THEN MetaSectionError(line,
                  Message("FORMAT metadata Number is not a number, A, R, G or dot", <<>>))
    ELSE IF value[s_Type] \notin {s_Integer, s_Float, s_Character, s_String}
         THEN MetaSectionError(line,
                  Message("FORMAT metadata Type is not a Integer, Float, Character or String",
                          <<>>))
    ELSE LET tags == IF version \in {"v41", "v42"} THEN format_v41_v42 ELSE format_v43
             t == check_predefined_tag(line, s_FORMAT, s_Type, value, tags)
         IN IF t # NoError THEN t
            ELSE check_predefined_tag(line, s_FORMAT, s_Number, value, tags)

\* faulty variant: the INFO types are taken to be the FORMAT types (no Flag)
check_info_format_types(line, version, value) ==
    IF s_ID \notin DOMAIN value THEN MissingField(line, s_INFO, s_ID)
    ELSE IF s_Number \notin DOMAIN value THEN MissingField(line, s_INFO, s_Number)
    ELSE IF s_Type \notin DOMAIN value THEN MissingField(line, s_INFO, s_Type)
    ELSE IF s_Description \notin DOMAIN value
         THEN MissingField(line, s_INFO, s_Description)
    ELSE IF BadNumber(value[s_Number])
         THEN MetaSectionError(line,
                  Message("INFO metadata Number is not a number, A, R, G or dot", <<>>))
    ELSE IF value[s_Type] \notin {s_Integer, s_Float, s_Character, s_String}
         THEN MetaSectionError(line,
                  Message("INFO metadata Type is not a Integer, Float, Flag, Character or String",
                          <<>>))
    ELSE LET tags == IF version \in {"v41", "v42"} THEN info_v41_v42 ELSE info_v43
             t == check_predefined_tag(line, s_INFO, s_Type, value, tags)
         IN IF t # NoError THEN t
            ELSE check_predefined_tag(line, s_INFO, s_Number, value, tags)

check_info(line, version, value) ==
    IF s_ID \notin DOMAIN value THEN MissingField(line, s_INFO, s_ID)
    ELSE IF s_Number \notin DOMAIN value THEN MissingField(line, s_INFO, s_Number)
    ELSE IF s_Type \notin DOMAIN value THEN MissingField(line, s_INFO, s_Type)
    ELSE IF s_Description \notin DOMAIN value
         THEN MissingField(line, s_INFO, s_Description)
    ELSE IF BadNumber(value[s_Number])
         THEN MetaSectionError(line,
                  Message("INFO metadata Number is not a number, A, R, G or dot", <<>>))
    ELSE IF value[s_Type] \notin {s_Integer, s_Float, s_Flag, s_Character, s_String}
         THEN MetaSectionError(line,
                  Message("INFO metadata Type is not a Integer, Float, Flag, Character or String",
                          <<>>))
    ELSE LET tags == IF version \in {"v41", "v42"} THEN info_v41_v42 ELSE info_v43
             t == check_predefined_tag(line, s_INFO, s_Type, value, tags)
         IN IF t # NoError THEN t
            ELSE check_predefined_tag(line, s_INFO, s_Number, value, tags)

\* faulty variant: only the last character of the value is looked at
visit_plain_last_character(line, value) ==
    IF Len(value) >= 1 /\ value[Len(value)] = "\n"
    THEN MetaSectionError(line, Message("Metadata value contains a line break", <<>>))
    ELSE NoError

\* MetaEntryVisitor::operator()(std::string &)
visit_plain(line, value) ==
    IF \E i \in 1..Len(value) : value[i] = "\n"
    THEN MetaSectionError(line, Message("Metadata value contains a line break", <<>>))
    ELSE NoError

\* MetaEntryVisitor::operator()(std::map<std::string, std::string> &)
visit_key_values(line, id, version, value) ==
    IF id = s_ALT THEN check_alt(line, value)
    ELSE IF id = <<"a", "s", "s", "e", "m", "b", "l", "y">> THEN NoError
    ELSE IF id = s_contig THEN check_contig(line, value)
    ELSE IF id = s_FILTER THEN check_filter(line, value)
    ELSE IF id = s_FORMAT THEN check_format(line, version, value)
    ELSE IF id = s_INFO THEN check_info(line, version, value)
    ELSE IF id = <<"P", "E", "D", "I", "G", "R", "E", "E">> THEN NoError
    ELSE IF id = <<"p", "e", "d", "i", "g", "r", "e", "e", "D", "B">> THEN NoError
    ELSE IF id = s_SAMPLE THEN check_sample(line, value)
    ELSE NoError

(***************************************************************************)
(* MetaEntry: the three constructors.  An entry is                         *)
(* [line, id, structure, value]; value is the variant, of which structure  *)
(* says whether the string or the map is held.  The NoValue constructor    *)
(* checks nothing, the other two run check_value().  MetaEntry_ctor is     *)
(* what the constructor throws (NoError: the entry is built).              *)
(***************************************************************************)
EmptyMap == [k \in {} |-> <<>>]

MetaEntry(line, id) ==
    [line |-> line, id |-> id, structure |-> "NoValue",
     value |-> [plain |-> <<>>, key_values |-> EmptyMap]]

MetaEntryPlain(line, id, plain_value) ==
    [line |-> line, id |-> id, structure |-> "PlainValue",
     value |-> [plain |-> plain_value, key_values |-> EmptyMap]]

MetaEntryKeyValue(line, id, key_values) ==
    [line |-> line, id |-> id, structure |-> "KeyValue",
     value |-> [plain |-> <<>>, key_values |-> key_values]]

check_value(entry, version) ==
    IF entry.structure = "PlainValue" THEN visit_plain(entry.line, entry.value.plain)
    ELSE visit_key_values(entry.line, entry.id, version, entry.value.key_values)

MetaEntry_ctor(entry, version) ==
    IF entry.structure = "NoValue" THEN NoError ELSE check_value(entry, version)

(***************************************************************************)
(* Source, Ploidy, ParsingState and Record: the parts the policy reads.    *)
(***************************************************************************)
\* Ploidy::get_ploidy: the contig's override if there is one, else the default
get_ploidy(ploidy, contig) ==
    IF contig \in DOMAIN ploidy.overrides THEN ploidy.overrides[contig] ELSE ploidy.default

\* meta_entries is a multimap: key -> the entries stored under it, in insertion order
equal_range(meta_entries, key) ==
    IF key \in DOMAIN meta_entries THEN meta_entries[key] ELSE <<>>

emplace(meta_entries, key, entry) ==
    (key :> Append(equal_range(meta_entries, key), entry)) @@ meta_entries

is_well_defined_meta(state, category, id) == <<category, id>> \in state.well_defined_meta

add_well_defined_meta(state, category, id) ==
    [state EXCEPT !.well_defined_meta = @ \cup {<<category, id>>}]

\* some entry of the range is a key-value entry whose ID is field_value
is_record_subfield_in_header(field_value, range) ==
    \E i \in 1..Len(range) :
        /\ range[i].structure = "KeyValue"
        /\ s_ID \in DOMAIN range[i].value.key_values
        /\ range[i].value.key_values[s_ID] = field_value

\* util::string_split: the pieces of s between the characters of delims
RECURSIVE string_split(_, _)
string_split(s, delims) ==
    IF \E i \in 1..Len(s) : s[i] \in delims
    THEN LET i == CHOOSE k \in 1..Len(s) :
                      s[k] \in delims /\ \A j \in 1..(k - 1) : s[j] \notin delims
         IN <<SubSeq(s, 1, i - 1)>> \o string_split(SubSeq(s, i + 1, Len(s)), delims)
    ELSE <<s>>

\* s[0] of a std::string: the terminating NUL (written "") when s is empty
front(s) == IF Len(s) >= 1 THEN s[1] ELSE ""

\* RecordType of one alternate allele, from its shape
RecordType(reference_allele, alternate) ==
    IF front(alternate) = "<" THEN "STRUCTURAL"
    ELSE IF alternate = <<"*">> \/ alternate = s_dot THEN "NO_VARIATION"
    ELSE IF Len(alternate) # Len(reference_allele) THEN "INDEL"
    ELSE IF Len(alternate) = 1 THEN "SNV"
    ELSE "MNV"

\* a Record as construction leaves it: types[i] classifies alternate_alleles[i]
Record(chromosome, position, ids, reference_allele, alternate_alleles, filters, info, format, samples) ==
    [chromosome |-> chromosome, position |-> position, ids |-> ids,
     reference_allele |-> reference_allele, alternate_alleles |-> alternate_alleles,
     types |-> [i \in 1..Len(alternate_alleles) |->
                   RecordType(reference_allele, alternate_alleles[i])],
     filters |-> filters, info |-> info, format |-> format, samples |-> samples]

(***************************************************************************)
(* Record construction: the structural checks, in the constructor's order; *)
(* the first failure aborts construction.  The arguments are                *)
(* [line, chromosome, position, ids, reference_allele, alternate_alleles,  *)
(* quality, filters, info, format, samples]; quality is [missing, value].  *)
(* The rules for which no diagnostic is named (a nonempty reference of     *)
(* known bases, a nonempty list of alternates, the subfield count of a     *)
(* sample) are not part of the model: the arguments tried satisfy them.    *)
(***************************************************************************)
BodyError(kind, line, text) == Error(kind, line, Message(text, <<>>), <<>>, <<>>, -1)

isspace(c) == c \in {" ", "\t", "\n", "\r"}

has_duplicates(seq) == \E i, j \in 1..Len(seq) : i < j /\ seq[i] = seq[j]

Record_check_chromosome(args, version) ==
    IF \E i \in 1..Len(args.chromosome) :
           isspace(args.chromosome[i]) \/ args.chromosome[i] = ":"
    THEN BodyError("ChromosomeBodyError", args.line,
                   "Chromosome must not contain whitespace or colons")
    ELSE NoError

\* faulty variant: duplicate ids let through under every version
Record_check_ids_whitespace_only(args, version) ==
    IF \E k \in 1..Len(args.ids) : \E i \in 1..Len(args.ids[k]) : isspace(args.ids[k][i])
    THEN BodyError("IdBodyError", args.line, "ID must not contain whitespace")
    ELSE NoError

Record_check_ids(args, version) ==
    IF \E k \in 1..Len(args.ids) : \E i \in 1..Len(args.ids[k]) : isspace(args.ids[k][i])
    THEN BodyError("IdBodyError", args.line, "ID must not contain whitespace")
    ELSE IF version = "v43" /\ has_duplicates(args.ids)
    THEN BodyError("IdBodyError", args.line, "ID must not have duplicate values")
    ELSE NoError

Record_check_alternate_alleles(args, version) ==
    IF \E i \in 1..Len(args.alternate_alleles) :
           args.alternate_alleles[i] = args.reference_allele
    THEN BodyError("AlternateAllelesBodyError", args.line,
                   "Reference and alternate alleles must not be the same")
    ELSE NoError

Record_check_quality(args, version) ==
    IF ~args.quality.missing /\ args.quality.value < 0
    THEN BodyError("QualityBodyError", args.line, "Quality must be equal or greater than zero")
    ELSE NoError

\* faulty variant: the place of GT is a rule of v4.3 only
Record_check_format_gt_v43_only(args, version) ==
    IF version = "v43" /\ has_duplicates(args.format)
    THEN BodyError("FormatBodyError", args.line, "FORMAT must not have duplicate fields")
    ELSE IF /\ version = "v43"
            /\ \E i \in 1..Len(args.format) : args.format[i] = s_GT
            /\ args.format[1] # s_GT
    THEN BodyError("FormatBodyError", args.line, "GT must be the first field in the FORMAT column")
    ELSE NoError

Record_check_format(args, version) ==
    IF version = "v43" /\ has_duplicates(args.format)
    THEN BodyError("FormatBodyError", args.line, "FORMAT must not have duplicate fields")
    ELSE IF /\ \E i \in 1..Len(args.format) : args.format[i] = s_GT
            /\ args.format[1] # s_GT
    THEN BodyError("FormatBodyError", args.line, "GT must be the first field in the FORMAT column")
    ELSE NoError

\* what the Record constructor throws (NoError: the record is built)
Record_ctor(args, version) ==
    LET c1 == Record_check_chromosome(args, version) IN
    IF c1 # NoError THEN c1 ELSE
    LET c3 == Record_check_ids(args, version) IN
    IF c3 # NoError THEN c3 ELSE
    LET c5 == Record_check_alternate_alleles(args, version) IN
    IF c5 # NoError THEN c5 ELSE
    LET c6 == Record_check_quality(args, version) IN
    IF c6 # NoError THEN c6 ELSE
    Record_check_format(args, version)

(***************************************************************************)
(* ValidateOptionalPolicy.  A check returns the ParsingState it leaves and *)
(* the diagnostic it throws (NoError: it returns normally).                *)
(***************************************************************************)
Result(state, thrown) == [state |-> state, thrown |-> thrown]

\* faulty variant: the test for the "reference" key negated
optional_check_meta_section_negated(state) ==
    IF s_reference \in DOMAIN state.source.meta_entries
    THEN MetaSectionError(state.n_lines,
             Message("A valid 'reference' entry is not listed in the meta section", <<>>))
    ELSE NoError

optional_check_meta_section(state) ==
    IF s_reference \notin DOMAIN state.source.meta_entries
    THEN MetaSectionError(state.n_lines,
             Message("A valid 'reference' entry is not listed in the meta section", <<>>))
    ELSE NoError

\* faulty variant: the samples are numbered from 0 in the message
RECURSIVE ploidy_of_samples_zero_based(_, _, _, _)
ploidy_of_samples_zero_based(state, record, i, ploidy) ==
    IF i > Len(record.samples) THEN [thrown |-> NoError, ploidy |-> ploidy]
    ELSE LET subfields == string_split(record.samples[i], {":"})
             alleles == string_split(subfields[1], {"|", "/"})
         IN IF ploidy > 0
            THEN IF Len(alleles) # ploidy
                 THEN [thrown |->
                          Error("SamplesFieldBodyError", state.n_lines,
                                Message("Sample #% has % allele(s), but % were found in others",
                                        <<to_string(i - 1), to_string(Len(alleles)),
                                          to_string(ploidy)>>),
                                s_GT, <<>>, ploidy),
                       ploidy |-> ploidy]
                 ELSE ploidy_of_samples_zero_based(state, record, i + 1, ploidy)
            ELSE ploidy_of_samples_zero_based(state, record, i + 1, Len(alleles))

\* the loop over record.samples: the diagnostic thrown and the ploidy observed
RECURSIVE ploidy_of_samples(_, _, _, _)
ploidy_of_samples(state, record, i, ploidy) ==
    IF i > Len(record.samples) THEN [thrown |-> NoError, ploidy |-> ploidy]
    ELSE LET subfields == string_split(record.samples[i], {":"})
             alleles == string_split(subfields[1], {"|", "/"})
         IN IF ploidy > 0
            THEN IF Len(alleles) # ploidy
                 THEN [thrown |->
                          Error("SamplesFieldBodyError", state.n_lines,
                                Message("Sample #% has % allele(s), but % were found in others",
                                        <<to_string(i), to_string(Len(alleles)),
                                          to_string(ploidy)>>),
                                s_GT, <<>>, ploidy),
                       ploidy |-> ploidy]
                 ELSE ploidy_of_samples(state, record, i + 1, ploidy)
            ELSE ploidy_of_samples(state, record, i + 1, Len(alleles))

\* faulty variant: the comparison with the configured ploidy left out
check_body_entry_ploidy_unconfigured(state, record) ==
    IF Len(record.format) >= 1 /\ record.format[1] = s_GT
    THEN Result(state, ploidy_of_samples(state, record, 1, 0).thrown)
    ELSE Result(state, NoError)

check_body_entry_ploidy(state, record) ==
    IF Len(record.format) >= 1 /\ record.format[1] = s_GT
    THEN LET seen == ploidy_of_samples(state, record, 1, 0)
             provided_ploidy == get_ploidy(state.source.ploidy, record.chromosome)
         IN IF seen.thrown # NoError THEN Result(state, seen.thrown)
            ELSE IF provided_ploidy # seen.ploidy
            THEN Result(state,
                     Error("SamplesFieldBodyError", state.n_lines,
                           Message("The specified ploidy for contig \"%\" was %, which doesn't match the genotypes, which show ploidy %",
                                   <<record.chromosome, to_string(provided_ploidy),
                                     to_string(seen.ploidy)>>),
                           s_GT, <<>>, provided_ploidy))
            ELSE Result(state, NoError)
    ELSE Result(state, NoError)

\* faulty variant: the record's position given where the line number belongs
check_body_entry_position_zero_at_position(state, record) ==
    IF record.position = 0
    THEN Result(state,
             Error("PositionBodyError", record.position,
                   Message("Position zero should only be used to reference a telomere", <<>>),
                   <<>>, <<>>, -1))
    ELSE Result(state, NoError)

check_body_entry_position_zero(state, record) ==
    IF record.position = 0
    THEN Result(state,
             Error("PositionBodyError", state.n_lines,
                   Message("Position zero should only be used to reference a telomere", <<>>),
                   <<>>, <<>>, -1))
    ELSE Result(state, NoError)

check_body_entry_id_commas(state, record) ==
    IF \E k \in 1..Len(record.ids) : \E c \in 1..Len(record.ids[k]) : record.ids[k][c] = ","
    THEN Result(state,
             Error("IdBodyError", state.n_lines,
                   Message("Comma found in the ID column; if used as separator, please replace it with semi-colon",
                           <<>>),
                   <<>>, <<>>, -1))
    ELSE Result(state, NoError)

\* faulty variant: the first nucleotides compared whatever the alternate's type
check_body_entry_reference_alternate_matching_any_type(state, record) ==
    IF \E i \in 1..Len(record.alternate_alleles) :
           front(record.alternate_alleles[i]) # front(record.reference_allele)
    THEN Result(state,
             Error("ReferenceAlleleBodyError", state.n_lines,
                   Message("Reference and alternate alleles do not share the first nucleotide",
                           <<>>),
                   <<>>, <<>>, -1))
    ELSE Result(state, NoError)

check_body_entry_reference_alternate_matching(state, record) ==
    IF \E i \in 1..Len(record.alternate_alleles) :
           /\ record.types[i] = "INDEL"
           /\ front(record.alternate_alleles[i]) # front(record.reference_allele)
    THEN Result(state,
             Error("ReferenceAlleleBodyError", state.n_lines,
                   Message("Reference and alternate alleles do not share the first nucleotide",
                           <<>>),
                   <<>>, <<>>, -1))
    ELSE Result(state, NoError)

NoMetaDefinitionError(line, message, column, value) ==
    Error("NoMetaDefinitionError", line, message, column, value, -1)

\* faulty variant: a contig found in the header is entered in both memo sets
check_contig_meta_marks_both(state, record) ==
    LET current_chromosome == record.chromosome
        range == equal_range(state.source.meta_entries, s_contig)
    IN IF is_well_defined_meta(state, s_contig, current_chromosome)
       THEN Result(state, NoError)
       ELSE IF is_record_subfield_in_header(current_chromosome, range)
       THEN Result([add_well_defined_meta(state, s_contig, current_chromosome)
                       EXCEPT !.undefined_meta = @ \cup {<<s_contig, current_chromosome>>}],
                   NoError)
       ELSE Result(state,
                NoMetaDefinitionError(state.n_lines,
                    Message("Chromosome/contig '%' is not described in a 'contig' meta description",
                            <<current_chromosome>>),
                    s_CHROM, current_chromosome))

\* faulty variant: the contig is memoized before it is looked up
check_contig_meta_marks_before_lookup(state, record) ==
    LET current_chromosome == record.chromosome
        range == equal_range(state.source.meta_entries, s_contig)
        marked == add_well_defined_meta(state, s_contig, current_chromosome)
    IN IF is_well_defined_meta(state, s_contig, current_chromosome)
       THEN Result(state, NoError)
       ELSE IF is_record_subfield_in_header(current_chromosome, range)
       THEN Result(marked, NoError)
       ELSE Result(marked,
                NoMetaDefinitionError(state.n_lines,
                    Message("Chromosome/contig '%' is not described in a 'contig' meta description",
                            <<current_chromosome>>),
                    s_CHROM, current_chromosome))

check_contig_meta(state, record) ==
    LET current_chromosome == record.chromosome
        range == equal_range(state.source.meta_entries, s_contig)
    IN IF is_well_defined_meta(state, s_contig, current_chromosome)
       THEN Result(state, NoError)
       ELSE IF is_record_subfield_in_header(current_chromosome, range)
       THEN Result(add_well_defined_meta(state, s_contig, current_chromosome), NoError)
       ELSE Result(state,
                NoMetaDefinitionError(state.n_lines,
                    Message("Chromosome/contig '%' is not described in a 'contig' meta description",
                            <<current_chromosome>>),
                    s_CHROM, current_chromosome))

\* the characters of the class [a-zA-Z0-9:_]
square_brackets_class ==
    {"a", "b", "c", "d", "e", "f", "g", "h", "i", "j", "k", "l", "m",
     "n", "o", "p", "q", "r", "s", "t", "u", "v", "w", "x", "y", "z",
     "A", "B", "C", "D", "E", "F", "G", "H", "I", "J", "K", "L", "M",
     "N", "O", "P", "Q", "R", "S", "T", "U", "V", "W", "X", "Y", "Z",
     "0", "1", "2", "3", "4", "5", "6", "7", "8", "9", ":", "_"}

\* boost::regex_match of the whole string against <([a-zA-Z0-9:_]+)>
square_brackets_regex_match(alternate) ==
    /\ Len(alternate) >= 3
    /\ alternate[1] = "<"
    /\ alternate[Len(alternate)] = ">"
    /\ \A i \in 2..(Len(alternate) - 1) : alternate[i] \in square_brackets_class

\* pieces_match[1]: the text the group captured
square_brackets_group(alternate) == SubSeq(alternate, 2, Len(alternate) - 1)

RECURSIVE check_alternate_allele_meta_from(_, _, _)
check_alternate_allele_meta_from(state, record, i) ==
    IF i > Len(record.alternate_alleles) THEN Result(state, NoError)
    ELSE LET alternate == record.alternate_alleles[i]
             range == equal_range(state.source.meta_entries, s_ALT)
             alt_id == square_brackets_group(alternate)
         IN IF front(alternate) = "<" /\ square_brackets_regex_match(alternate)
            THEN IF is_well_defined_meta(state, s_ALT, alt_id)
                 THEN check_alternate_allele_meta_from(state, record, i + 1)
                 ELSE IF is_record_subfield_in_header(alt_id, range)
                 THEN check_alternate_allele_meta_from(
                          add_well_defined_meta(state, s_ALT, alt_id), record, i + 1)
                 ELSE Result(state,
                          NoMetaDefinitionError(state.n_lines,
                              Message("Alternate '<%>' is not listed in a valid meta-data ALT entry",
                                      <<alt_id>>),
                              s_ALT, alt_id))
            ELSE check_alternate_allele_meta_from(state, record, i + 1)

\* faulty variant: the id is the whole match, brackets included
RECURSIVE check_alternate_allele_meta_whole_match_from(_, _, _)
check_alternate_allele_meta_whole_match_from(state, record, i) ==
    IF i > Len(record.alternate_alleles) THEN Result(state, NoError)
    ELSE LET alternate == record.alternate_alleles[i]
             range == equal_range(state.source.meta_entries, s_ALT)
             alt_id == alternate
         IN IF front(alternate) = "<" /\ square_brackets_regex_match(alternate)
            THEN IF is_well_defined_meta(state, s_ALT, alt_id)
                 THEN check_alternate_allele_meta_whole_match_from(state, record, i + 1)
                 ELSE IF is_record_subfield_in_header(alt_id, range)
                 THEN check_alternate_allele_meta_whole_match_from(
                          add_well_defined_meta(state, s_ALT, alt_id), record, i + 1)
                 ELSE Result(state,
                          NoMetaDefinitionError(state.n_lines,
                              Message("Alternate '<%>' is not listed in a valid meta-data ALT entry",
                                      <<alt_id>>),
                              s_ALT, alt_id))
            ELSE check_alternate_allele_meta_whole_match_from(state, record, i + 1)

check_alternate_allele_meta_whole_match(state, record) ==
    check_alternate_allele_meta_whole_match_from(state, record, 1)

check_alternate_allele_meta(state, record) ==
    check_alternate_allele_meta_from(state, record, 1)

RECURSIVE check_filter_meta_from(_, _, _)
check_filter_meta_from(state, record, i) ==
    IF i > Len(record.filters) THEN Result(state, NoError)
    ELSE LET filter == record.filters[i]
             range == equal_range(state.source.meta_entries, s_FILTER)
         IN IF filter = s_PASS \/ filter = s_dot
            THEN check_filter_meta_from(state, record, i + 1)
            ELSE IF is_well_defined_meta(state, s_FILTER, filter)
            THEN check_filter_meta_from(state, record, i + 1)
            ELSE IF is_record_subfield_in_header(filter, range)
            THEN check_filter_meta_from(
                     add_well_defined_meta(state, s_FILTER, filter), record, i + 1)
            ELSE Result(state,
                     NoMetaDefinitionError(state.n_lines,
                         Message("Filter '%' is not listed in a valid meta-data FILTER entry",
                                 <<filter>>),
                         s_FILTER, filter))

\* faulty variant: the diagnostic names the record's first filter, not the one that failed
check_filter_meta_names_first(state, record) ==
    LET res == check_filter_meta_from(state, record, 1)
    IN IF res.thrown = NoError THEN res
       ELSE Result(res.state, [res.thrown EXCEPT !.value = record.filters[1]])

\* faulty variant: a filter that is not declared is memoized, to be notified once
RECURSIVE check_filter_meta_notify_once_from(_, _, _)
check_filter_meta_notify_once_from(state, record, i) ==
    IF i > Len(record.filters) THEN Result(state, NoError)
    ELSE LET filter == record.filters[i]
             range == equal_range(state.source.meta_entries, s_FILTER)
         IN IF filter = s_PASS \/ filter = s_dot
            THEN check_filter_meta_notify_once_from(state, record, i + 1)
            ELSE IF is_well_defined_meta(state, s_FILTER, filter)
            THEN check_filter_meta_notify_once_from(state, record, i + 1)
            ELSE IF is_record_subfield_in_header(filter, range)
            THEN check_filter_meta_notify_once_from(
                     add_well_defined_meta(state, s_FILTER, filter), record, i + 1)
            ELSE Result(add_well_defined_meta(state, s_FILTER, filter),
                     NoMetaDefinitionError(state.n_lines,
                         Message("Filter '%' is not listed in a valid meta-data FILTER entry",
                                 <<filter>>),
                         s_FILTER, filter))

check_filter_meta_notify_once(state, record) ==
    check_filter_meta_notify_once_from(state, record, 1)

check_filter_meta(state, record) == check_filter_meta_from(state, record, 1)

RECURSIVE check_info_meta_from(_, _, _)
check_info_meta_from(state, record, i) ==
    IF i > Len(record.info) THEN Result(state, NoError)
    ELSE LET id == record.info[i][1]
             range == equal_range(state.source.meta_entries, s_INFO)
         IN IF id = s_dot
            THEN check_info_meta_from(state, record, i + 1)
            ELSE IF is_well_defined_meta(state, s_INFO, id)
            THEN check_info_meta_from(state, record, i + 1)
            ELSE IF is_record_subfield_in_header(id, range)
            THEN check_info_meta_from(
                     add_well_defined_meta(state, s_INFO, id), record, i + 1)
            ELSE Result(state,
                     NoMetaDefinitionError(state.n_lines,
                         Message("Info '%' is not listed in a valid meta-data INFO entry",
                                 <<id>>),
                         s_INFO, id))

\* faulty variant: a "." key of the INFO column is looked up like any other
RECURSIVE check_info_meta_dot_looked_up_from(_, _, _)
check_info_meta_dot_looked_up_from(state, record, i) ==
    IF i > Len(record.info) THEN Result(state, NoError)
    ELSE LET id == record.info[i][1]
             range == equal_range(state.source.meta_entries, s_INFO)
         IN IF is_well_defined_meta(state, s_INFO, id)
            THEN check_info_meta_dot_looked_up_from(state, record, i + 1)
            ELSE IF is_record_subfield_in_header(id, range)
            THEN check_info_meta_dot_looked_up_from(
                     add_well_defined_meta(state, s_INFO, id), record, i + 1)
            ELSE Result(state,
                     NoMetaDefinitionError(state.n_lines,
                         Message("Info '%' is not listed in a valid meta-data INFO entry",
                                 <<id>>),
                         s_INFO, id))

check_info_meta_dot_looked_up(state, record) ==
    check_info_meta_dot_looked_up_from(state, record, 1)

\* faulty variant: the loop over record.info never entered
check_info_meta_no_loop(state, record) == Result(state, NoError)

check_info_meta(state, record) == check_info_meta_from(state, record, 1)

RECURSIVE check_format_meta_from(_, _, _)
check_format_meta_from(state, record, i) ==
    IF i > Len(record.format) THEN Result(state, NoError)
    ELSE LET fm == record.format[i]
             range == equal_range(state.source.meta_entries, s_FORMAT)
         IN IF is_well_defined_meta(state, s_FORMAT, fm)
            THEN check_format_meta_from(state, record, i + 1)
            ELSE IF is_record_subfield_in_header(fm, range)
            THEN check_format_meta_from(
                     add_well_defined_meta(state, s_FORMAT, fm), record, i + 1)
            ELSE Result(state,
                     NoMetaDefinitionError(state.n_lines,
                         Message("Format '%' is not listed in a valid meta-data FORMAT entry",
                                 <<fm>>),
                         s_FORMAT, fm))

\* faulty variant: a format field that is not declared is entered in undefined_meta
RECURSIVE check_format_meta_marks_undefined_from(_, _, _)
check_format_meta_marks_undefined_from(state, record, i) ==
    IF i > Len(record.format) THEN Result(state, NoError)
    ELSE LET fm == record.format[i]
             range == equal_range(state.source.meta_entries, s_FORMAT)
         IN IF is_well_defined_meta(state, s_FORMAT, fm)
            THEN check_format_meta_marks_undefined_from(state, record, i + 1)
            ELSE IF is_record_subfield_in_header(fm, range)
            THEN check_format_meta_marks_undefined_from(
                     add_well_defined_meta(state, s_FORMAT, fm), record, i + 1)
            ELSE Result([state EXCEPT !.undefined_meta = @ \cup {<<s_FORMAT, fm>>}],
                     NoMetaDefinitionError(state.n_lines,
                         Message("Format '%' is not listed in a valid meta-data FORMAT entry",
                                 <<fm>>),
                         s_FORMAT, fm))

check_format_meta_marks_undefined(state, record) ==
    check_format_meta_marks_undefined_from(state, record, 1)

check_format_meta(state, record) == check_format_meta_from(state, record, 1)

\* faulty variant: the position-zero check called before the ploidy check
optional_check_body_entry_reordered(state, record) ==
    LET r1 == check_body_entry_position_zero(state, record) IN
    IF r1.thrown # NoError THEN r1 ELSE
    LET r2 == check_body_entry_ploidy(r1.state, record) IN
    IF r2.thrown # NoError THEN r2 ELSE
    LET r3 == check_body_entry_id_commas(r2.state, record) IN
    IF r3.thrown # NoError THEN r3 ELSE
    LET r4 == check_body_entry_reference_alternate_matching(r3.state, record) IN
    IF r4.thrown # NoError THEN r4 ELSE
    LET r5 == check_contig_meta(r4.state, record) IN
    IF r5.thrown # NoError THEN r5 ELSE
    LET r6 == check_alternate_allele_meta(r5.state, record) IN
    IF r6.thrown # NoError THEN r6 ELSE
    LET r7 == check_filter_meta(r6.state, record) IN
    IF r7.thrown # NoError THEN r7 ELSE
    LET r8 == check_info_meta(r7.state, record) IN
    IF r8.thrown # NoError THEN r8 ELSE
    check_format_meta(r8.state, record)

\* faulty variant: a call that fails gives back the memo it was given
optional_check_body_entry_rolls_back(state, record) ==
    LET r1 == check_body_entry_ploidy(state, record) IN
    IF r1.thrown # NoError THEN r1 ELSE
    LET r2 == check_body_entry_position_zero(r1.state, record) IN
    IF r2.thrown # NoError THEN r2 ELSE
    LET r3 == check_body_entry_id_commas(r2.state, record) IN
    IF r3.thrown # NoError THEN r3 ELSE
    LET r4 == check_body_entry_reference_alternate_matching(r3.state, record) IN
    IF r4.thrown # NoError THEN r4 ELSE
    LET r5 == check_contig_meta(r4.state, record) IN
    IF r5.thrown # NoError THEN Result(state, r5.thrown) ELSE
    LET r6 == check_alternate_allele_meta(r5.state, record) IN
    IF r6.thrown # NoError THEN Result(state, r6.thrown) ELSE
    LET r7 == check_filter_meta(r6.state, record) IN
    IF r7.thrown # NoError THEN Result(state, r7.thrown) ELSE
    LET r8 == check_info_meta(r7.state, record) IN
    IF r8.thrown # NoError THEN Result(state, r8.thrown) ELSE
    LET r9 == check_format_meta(r8.state, record) IN
    IF r9.thrown # NoError THEN Result(state, r9.thrown) ELSE r9

\* the nine checks in the order of the calls; the first throw ends the function
optional_check_body_entry(state, record) ==
    LET r1 == check_body_entry_ploidy(state, record) IN
    IF r1.thrown # NoError THEN r1 ELSE
    LET r2 == check_body_entry_position_zero(r1.state, record) IN
    IF r2.thrown # NoError THEN r2 ELSE
    LET r3 == check_body_entry_id_commas(r2.state, record) IN
    IF r3.thrown # NoError THEN r3 ELSE
    LET r4 == check_body_entry_reference_alternate_matching(r3.state, record) IN
    IF r4.thrown # NoError THEN r4 ELSE
    LET r5 == check_contig_meta(r4.state, record) IN
    IF r5.thrown # NoError THEN r5 ELSE
    LET r6 == check_alternate_allele_meta(r5.state, record) IN
    IF r6.thrown # NoError THEN r6 ELSE
    LET r7 == check_filter_meta(r6.state, record) IN
    IF r7.thrown # NoError THEN r7 ELSE
    LET r8 == check_info_meta(r7.state, record) IN
    IF r8.thrown # NoError THEN r8 ELSE
    check_format_meta(r8.state, record)

optional_check_body_section(state) == NoError

(***************************************************************************)
(* Bounds and inputs.                                                      *)
(***************************************************************************)
MaxMeta == 3        \* meta lines read before the header closes
MaxBody == 2        \* body lines read
MaxLine == 2        \* line numbers tried for a MetaEntry built on its own

s_chr1 == <<"c", "h", "r", "1">>
s_chrX == <<"c", "h", "r", "X">>
s_q10 == <<"q", "1", "0">>
s_q20 == <<"q", "2", "0">>
s_AN == <<"A", "N">>
s_DP == <<"D", "P">>
s_d == <<"d">>

KeyValues4(id, number, type, description) ==
    (s_ID :> id) @@ (s_Number :> number) @@ (s_Type :> type) @@ (s_Description :> description)

\* the meta lines a header is made of (line 0: not yet read)
MetaPool ==
    { MetaEntryPlain(0, s_reference, <<"x">>),
      MetaEntryKeyValue(0, s_contig, (s_ID :> s_chr1)),
      MetaEntryKeyValue(0, s_FORMAT, KeyValues4(s_GT, <<"1">>, s_String, s_d)),
      MetaEntryKeyValue(0, s_FORMAT, KeyValues4(s_GT, <<"1">>, s_Integer, s_d)),
      MetaEntryKeyValue(0, s_INFO, KeyValues4(s_AN, <<"1">>, s_Integer, s_d)),
      MetaEntryKeyValue(0, s_FILTER, (s_ID :> s_q10) @@ (s_Description :> s_d)),
      MetaEntryKeyValue(0, s_ALT, (s_ID :> <<"D", "E", "L">>) @@ (s_Description :> s_d)) }

\* the body lines: records as construction leaves them (line 0: not yet read)
g_01 == <<"0", "|", "1">>
g_011 == <<"0", "|", "1", "|", "1">>
no_info == <<<<s_dot, s_dot>>>>

RecordPool ==
    { Record(s_chr1, 123456, <<<<"i", "d", "1">>>>, <<"A">>, <<<<"T">>>>,
             <<s_PASS>>, <<<<s_AN, <<"1", "2">>>>>>, <<s_GT>>, <<g_01>>),
      Record(s_chr1, 100, <<>>, <<"A">>, <<<<"T">>>>,
             <<s_PASS>>, no_info, <<s_GT>>, <<g_01>>),
      Record(s_chr1, 100, <<>>, <<"A", "C">>, <<<<"G", "T">>>>,
             <<s_PASS>>, no_info, <<s_GT>>, <<g_01>>),
      Record(s_chr1, 100, <<>>, <<"A", "C">>, <<<<"G">>>>,
             <<s_PASS>>, no_info, <<s_GT>>, <<g_01>>),
      Record(s_chr1, 100, <<>>, <<"A">>, <<<<"T">>>>,
             <<s_q10>>, no_info, <<s_GT>>, <<g_01>>),
      Record(s_chr1, 100, <<>>, <<"A">>, <<<<"T">>>>,
             <<s_q10, s_q20>>, no_info, <<s_GT>>, <<g_01>>),
      Record(s_chrX, 100, <<>>, <<"A">>, <<<<"T">>>>,
             <<s_PASS>>, no_info, <<s_GT>>, <<g_011>>),
      Record(s_chr1, 0, <<>>, <<"A">>, <<<<"T">>>>,
             <<s_PASS>>, no_info, <<s_GT>>, <<g_011>>),
      Record(s_chr1, 0, <<<<"a", ",", "b">>>>, <<"A", "C">>, <<<<"G">>>>,
             <<s_q10>>, <<<<s_AN, <<"1", "2">>>>>>, <<s_GT>>, <<g_01>>),
      Record(s_chr1, 100, <<>>, <<"A">>, <<<<"T">>>>,
             <<s_PASS>>, no_info, <<s_GT>>, <<g_01, <<"0">>>>),
      Record(s_chr1, 100, <<>>, <<"A">>, <<<<"<", "D", "E", "L", ">">>, <<"<", "D", "U", "P", ">">>>>,
             <<s_PASS>>, no_info, <<s_GT>>, <<g_01>>),
      Record(s_chr1, 100, <<>>, <<"A">>, <<<<"T">>>>,
             <<s_PASS>>, no_info, <<s_DP>>, <<<<"1", "3">>>>) }

NoRecord == Record(<<>>, 0, <<>>, <<>>, <<>>, <<>>, <<>>, <<>>, <<>>)

Pending == [kind |-> "pending"]

\* constructor arguments of a Record
RecordArgs(line, chromosome, position, ids, reference_allele, alternate_alleles, quality, filters, info, format, samples) ==
    [line |-> line, chromosome |-> chromosome, position |-> position, ids |-> ids,
     reference_allele |-> reference_allele, alternate_alleles |-> alternate_alleles,
     quality |-> quality, filters |-> filters, info |-> info, format |-> format,
     samples |-> samples]

quality_of(value) == [missing |-> FALSE, value |-> value]

quality_missing == [missing |-> TRUE, value |-> 0]

NoRecordArgs ==
    [args |-> RecordArgs(0, <<>>, 0, <<>>, <<>>, <<>>, quality_missing, <<>>, <<>>, <<>>, <<>>),
     version |-> "v41"]

(***************************************************************************)
(* The driver: it reads the meta lines, closes the header, reads the body  *)
(* lines and closes the body; what a constructor or the policy throws goes *)
(* to the report sink and the file goes on.                                *)
(***************************************************************************)
ParsingState ==
    [n_lines |-> n_lines, source |-> source,
     well_defined_meta |-> well_defined_meta, undefined_meta |-> undefined_meta]

report(thrown) == IF thrown = NoError THEN log ELSE Append(log, thrown)

Init ==
    /\ phase = "meta"
    /\ n_records = 0
    /\ n_lines = 0
    /\ source = [version |-> "v41",
                 ploidy |-> [default |-> 2, overrides |-> (<<"Y">> :> 1)],
                 meta_entries |-> EmptyMap,
                 samples |-> <<<<"S", "a", "m", "p", "l", "e", "1">>>>]
    /\ well_defined_meta = {}
    /\ undefined_meta = {}
    /\ log = <<>>
    /\ last = [op |-> "none", record |-> NoRecord, thrown |-> NoError]
    /\ m_entry = [entry |-> MetaEntry(0, <<>>), version |-> "v41"]
    /\ m_result = Pending
    /\ r_args = NoRecordArgs
    /\ r_result = Pending

\* a meta line (none is read twice): the MetaEntry is constructed and, if that
\* succeeds, stored under its id
ReadMetaLine(m) ==
    /\ phase = "meta"
    /\ n_lines < MaxMeta
    /\ LET entry == [m EXCEPT !.line = n_lines + 1]
           thrown == MetaEntry_ctor(entry, source.version)
           stored == equal_range(source.meta_entries, m.id)
       IN /\ \A i \in 1..Len(stored) : stored[i].value # m.value
          /\ n_lines' = n_lines + 1
          /\ source' = IF thrown = NoError
                       THEN [source EXCEPT !.meta_entries = emplace(@, m.id, entry)]
                       ELSE source
          /\ log' = report(thrown)
    /\ UNCHANGED <<phase, n_records, well_defined_meta, undefined_meta, last,
                   m_entry, m_result, r_args, r_result>>

\* the header line: the meta section is complete
EndMetaSection ==
    /\ phase = "meta"
    /\ LET thrown == optional_check_meta_section(ParsingState)
       IN /\ log' = report(thrown)
          /\ last' = [op |-> "meta_section", record |-> NoRecord, thrown |-> thrown]
    /\ phase' = "body"
    /\ UNCHANGED <<n_records, n_lines, source, well_defined_meta, undefined_meta,
                   m_entry, m_result, r_args, r_result>>

\* a body line: the policy runs on the record built from it
ReadBodyLine(r) ==
    /\ phase = "body"
    /\ n_records < MaxBody
    /\ n_records' = n_records + 1
    /\ LET state == [ParsingState EXCEPT !.n_lines = n_lines + 1]
           res == optional_check_body_entry(state, r)
       IN /\ n_lines' = res.state.n_lines
          /\ source' = res.state.source
          /\ well_defined_meta' = res.state.well_defined_meta
          /\ undefined_meta' = res.state.undefined_meta
          /\ log' = report(res.thrown)
          /\ last' = [op |-> "body_entry", record |-> r, thrown |-> res.thrown]
    /\ UNCHANGED <<phase, m_entry, m_result, r_args, r_result>>

\* the end of the file
EndBodySection ==
    /\ phase = "body"
    /\ LET thrown == optional_check_body_section(ParsingState)
       IN /\ log' = report(thrown)
          /\ last' = [op |-> "body_section", record |-> NoRecord, thrown |-> thrown]
    /\ phase' = "done"
    /\ UNCHANGED <<n_records, n_lines, source, well_defined_meta, undefined_meta,
                   m_entry, m_result, r_args, r_result>>

Next ==
    \/ \E m \in MetaPool : ReadMetaLine(m)
    \/ EndMetaSection
    \/ \E r \in RecordPool : ReadBodyLine(r)
    \/ EndBodySection

Spec == Init /\ [][Next]_vars

(***************************************************************************)
(* MetaEntry construction on its own: the constructor applied to one entry *)
(* drawn from the inputs below, under each version.                        *)
(***************************************************************************)
Absent == <<"(absent)">>    \* marks a key the map does not hold

KeyValuesOf(id, number, type, description) ==
    LET full == KeyValues4(id, number, type, description)
    IN [k \in {x \in DOMAIN full : full[x] # Absent} |-> full[k]]

MetaIdValues ==
    {Absent, s_GT, <<"F", "T">>, <<"A", "D">>, s_AN, <<"F", "O", "O">>,
     <<"D", "E", "L">>, <<"D", "E", "L", ":", "M">>}

MetaNumberValues == {Absent, <<>>, <<"1">>, <<"2">>, <<"R">>, s_dot, <<"1", "a">>}

MetaTypeValues == {Absent, s_Integer, s_Float, s_Flag, s_Character, s_String, <<"F", "o", "o">>}

MetaKeyValues ==
    { KeyValuesOf(id, number, type, description) :
          id \in MetaIdValues, number \in MetaNumberValues,
          type \in MetaTypeValues, description \in {Absent, s_d} }

MetaPlainValues == {<<>>, <<"x">>, <<"\n">>, <<"a", "\n", "b">>, <<"a", "b", "\n">>}

MetaTags ==
    {s_ALT, s_contig, s_FILTER, s_FORMAT, s_INFO, s_SAMPLE, s_reference,
     <<"P", "E", "D", "I", "G", "R", "E", "E">>}

MetaInputs ==
    { MetaEntryKeyValue(line, id, value) :
          line \in 1..MaxLine, id \in MetaTags, value \in MetaKeyValues }
    \cup { MetaEntryPlain(line, id, value) :
          line \in 1..MaxLine, id \in MetaTags, value \in MetaPlainValues }
    \cup { MetaEntry(line, id) : line \in 1..MaxLine, id \in MetaTags }

InitMeta ==
    /\ phase = "meta"
    /\ n_records = 0
    /\ n_lines = 0
    /\ source = [version |-> "v41",
                 ploidy |-> [default |-> 2, overrides |-> (<<"Y">> :> 1)],
                 meta_entries |-> EmptyMap,
                 samples |-> <<<<"S", "a", "m", "p", "l", "e", "1">>>>]
    /\ well_defined_meta = {}
    /\ undefined_meta = {}
    /\ log = <<>>
    /\ last = [op |-> "none", record |-> NoRecord, thrown |-> NoError]
    /\ m_entry \in [entry : MetaInputs, version : {"v41", "v42", "v43"}]
    /\ m_result = Pending
    /\ r_args = NoRecordArgs
    /\ r_result = Pending

Construct ==
    /\ m_result = Pending
    /\ m_result' = MetaEntry_ctor(m_entry.entry, m_entry.version)
    /\ UNCHANGED <<phase, n_records, n_lines, source, well_defined_meta, undefined_meta,
                   log, last, m_entry, r_args, r_result>>

NextMeta == Construct

SpecMeta == InitMeta /\ [][NextMeta]_vars

(***************************************************************************)
(* Record construction on its own: the constructor applied to one set of   *)
(* arguments drawn from the inputs below, under each version.              *)
(***************************************************************************)
s_id1 == <<"i", "d", "1">>
s_id2 == <<"i", "d", "2">>

RecordChromosomes == {s_chr1, <<"c", "h", "r", " ", "1">>, <<"c", "h", "r", ":", "1">>}

RecordIds == {<<>>, <<s_id1>>, <<<<"i", "d", " ", "1">>, s_id2>>, <<s_id1, s_id1>>, <<s_id1, s_id2>>}

RecordAlternates == {<<<<"T">>>>, <<<<"A">>>>, <<<<"T">>, <<"A">>>>, <<<<"A", "C">>, <<"A", "T">>>>}

RecordQualities == {quality_missing, quality_of(-1), quality_of(0), quality_of(1)}

RecordFormats ==
    {<<s_GT>>, <<s_DP>>, <<s_GT, s_DP>>, <<s_DP, s_GT>>, <<s_DP, s_DP>>, <<s_GT, s_GT>>,
     <<s_DP, s_GT, s_GT>>}

RecordInputs ==
    { RecordArgs(line, chromosome, 123456, ids, <<"A">>, alternates, quality,
                 <<s_PASS>>, <<<<s_AN, <<"1", "2">>>>>>, format, <<g_01>>) :
          line \in 1..MaxLine, chromosome \in RecordChromosomes, ids \in RecordIds,
          alternates \in RecordAlternates, quality \in RecordQualities,
          format \in RecordFormats }

InitRecord ==
    /\ phase = "meta"
    /\ n_records = 0
    /\ n_lines = 0
    /\ source = [version |-> "v41",
                 ploidy |-> [default |-> 2, overrides |-> (<<"Y">> :> 1)],
                 meta_entries |-> EmptyMap,
                 samples |-> <<<<"S", "a", "m", "p", "l", "e", "1">>>>]
    /\ well_defined_meta = {}
    /\ undefined_meta = {}
    /\ log = <<>>
    /\ last = [op |-> "none", record |-> NoRecord, thrown |-> NoError]
    /\ m_entry = [entry |-> MetaEntry(0, <<>>), version |-> "v41"]
    /\ m_result = Pending
    /\ r_args \in [args : RecordInputs, version : {"v41", "v42", "v43"}]
    /\ r_result = Pending

ConstructRecord ==
    /\ r_result = Pending
    /\ r_result' = Record_ctor(r_args.args, r_args.version)
    /\ UNCHANGED <<phase, n_records, n_lines, source, well_defined_meta, undefined_meta,
                   log, last, m_entry, m_result, r_args>>

NextRecord == ConstructRecord

SpecRecord == InitRecord /\ [][NextRecord]_vars

(***************************************************************************)
(* The body of a file on its own: the meta lines have been read (one of    *)
(* the headers below); the header is closed and the body lines are drawn   *)
(* from a wider pool of records.                                           *)
(***************************************************************************)
\* the Source after the meta lines of entries have been read in order
RECURSIVE read_header(_, _)
read_header(src, entries) ==
    IF entries = <<>> THEN src
    ELSE LET entry == [Head(entries) EXCEPT !.line = Len(entries)]
             rest == read_header(src, Tail(entries))
         IN IF MetaEntry_ctor(entry, src.version) = NoError
            THEN [rest EXCEPT !.meta_entries = emplace(@, entry.id, entry)]
            ELSE rest

EmptySource ==
    [version |-> "v41",
     ploidy |-> [default |-> 2, overrides |-> (<<"Y">> :> 1)],
     meta_entries |-> EmptyMap,
     samples |-> <<<<"S", "a", "m", "p", "l", "e", "1">>>>]

HeaderPool ==
    { <<>>,
      << MetaEntryKeyValue(0, s_FORMAT, KeyValues4(s_GT, <<"1">>, s_String, s_d)),
         MetaEntryKeyValue(0, s_contig, (s_ID :> s_chr1)),
         MetaEntryPlain(0, s_reference, <<"x">>) >>,
      << MetaEntryKeyValue(0, s_ALT, (s_ID :> <<"D", "E", "L">>) @@ (s_Description :> s_d)),
         MetaEntryKeyValue(0, s_FILTER, (s_ID :> s_q10) @@ (s_Description :> s_d)),
         MetaEntryKeyValue(0, s_INFO, KeyValues4(s_AN, <<"1">>, s_Integer, s_d)),
         MetaEntryKeyValue(0, s_FORMAT, KeyValues4(s_GT, <<"1">>, s_String, s_d)),
         MetaEntryKeyValue(0, s_contig, (s_ID :> s_chr1)),
         MetaEntryPlain(0, s_reference, <<"x">>) >>,
      << MetaEntryPlain(0, s_FILTER, s_q10),
         MetaEntryPlain(0, s_contig, s_chr1),
         MetaEntryKeyValue(0, s_FORMAT, KeyValues4(s_GT, <<"1">>, s_String, s_d)),
         MetaEntryKeyValue(0, s_FILTER, (s_ID :> s_PASS) @@ (s_Description :> s_d)),
         MetaEntryKeyValue(0, s_INFO, KeyValues4(s_dot, <<"1">>, s_Integer, s_d)),
         MetaEntryKeyValue(0, s_contig, (s_ID :> s_FILTER)),
         MetaEntryKeyValue(0, s_contig, (s_ID :> s_q10)),
         MetaEntryPlain(0, s_reference, <<"x">>) >> }

\* a record on chr1 that differs from a plain one in its format and samples
SamplesRecord(chromosome, format, samples) ==
    Record(chromosome, 100, <<>>, <<"A">>, <<<<"T">>>>, <<s_PASS>>, no_info, format, samples)

\* a record on chr1 that differs from a plain one in its cross-referenced columns
MetaRecord(chromosome, alternate_alleles, filters, info, format) ==
    Record(chromosome, 100, <<>>, <<"A">>, alternate_alleles, filters, info, format, <<g_01>>)

g_0 == <<"0">>

BodyRecordPool ==
    { SamplesRecord(s_chr1, <<s_GT>>, <<g_01>>),
      SamplesRecord(s_chr1, <<s_GT>>, <<g_01, g_01, g_0>>),
      SamplesRecord(s_chr1, <<s_GT>>, <<g_01, g_0, g_011>>),
      SamplesRecord(s_chr1, <<s_GT>>, <<g_01, <<"1", "/", "0">>>>),
      SamplesRecord(s_chr1, <<s_GT>>, <<g_0, g_0>>),
      SamplesRecord(s_chr1, <<s_GT>>, <<g_0, g_01>>),
      SamplesRecord(s_chr1, <<s_GT, s_DP>>, <<<<"0", "|", "1", ":", "1", "2">>, <<"0", ":", "3">>>>),
      SamplesRecord(s_chr1, <<s_GT, s_DP>>, <<<<"0", "|", "1", ":", "1">>, <<"0", "/", "1", ":", "3">>>>),
      SamplesRecord(s_chr1, <<s_DP, s_GT>>, <<<<"1", ":", "0", "|", "1">>, <<"3", ":", "0">>>>),
      SamplesRecord(s_chr1, <<s_DP>>, <<<<"1", "|", "2">>, <<"3">>>>),
      SamplesRecord(s_chr1, <<>>, <<>>),
      SamplesRecord(<<"Y">>, <<s_GT>>, <<g_0, g_0>>),
      MetaRecord(s_chrX, <<<<"T">>>>, <<s_PASS>>, no_info, <<s_GT>>),
      MetaRecord(s_chr1, <<<<"T">>>>, <<s_dot>>, no_info, <<s_GT>>),
      MetaRecord(s_chr1, <<<<"T">>>>, <<s_q10>>, no_info, <<s_GT>>),
      MetaRecord(s_chr1, <<<<"T">>>>, <<s_PASS, s_q10, s_q20>>, no_info, <<s_GT>>),
      MetaRecord(s_chr1, <<<<"T">>>>, <<s_PASS>>, <<<<s_AN, <<"1", "2">>>>>>, <<s_GT>>),
      MetaRecord(s_chr1, <<<<"T">>>>, <<s_PASS>>,
                 <<<<s_dot, s_dot>>, <<s_AN, <<"1", "2">>>>, <<s_DP, <<"3">>>>>>, <<s_GT>>),
      MetaRecord(s_chr1, <<<<"T">>>>, <<s_PASS>>, no_info, <<s_GT, s_DP>>),
      MetaRecord(s_q10, <<<<"T">>>>, <<s_q10>>, no_info, <<s_GT>>),
      MetaRecord(s_FILTER, <<<<"T">>>>, <<s_PASS>>, no_info, <<s_GT>>),
      MetaRecord(s_chr1, <<<<"<", "D", "E", "L", ">">>>>, <<s_PASS>>, no_info, <<s_GT>>),
      MetaRecord(s_chr1, <<<<"<", "D", "U", "P", ">">>>>, <<s_PASS>>, no_info, <<s_GT>>),
      MetaRecord(s_chr1, <<<<"<", ">">>, <<"<", "D", "-", "L", ">">>, <<"<", "D", "E", "L">>,
                           <<"<", "D", "U", "P", ">">>>>,
                 <<s_PASS>>, no_info, <<s_GT>>),
      MetaRecord(s_chr1, <<<<"T">>, <<"<", "D", "E", "L", ">", "T">>,
                           <<"<", ">">>, <<"<", "D", " ", "L", ">">>>>,
                 <<s_q20>>, no_info, <<s_GT>>),
      MetaRecord(s_chr1, <<<<"<", "D", "E", "L", ":", "M", "_", "1", ">">>,
                           <<"<", "D", "E", "L", ">">>>>,
                 <<s_PASS>>, no_info, <<s_GT>>),
      Record(s_chr1, 0, <<>>, <<"A">>, <<<<"T">>>>, <<s_q10>>, no_info, <<s_GT>>, <<g_01>>),
      Record(s_chr1, 100, <<<<"a", ",", "b">>>>, <<"A">>, <<<<"T">>>>,
             <<s_q10>>, no_info, <<s_GT>>, <<g_01>>),
      Record(s_chr1, 100, <<>>, <<"A", "C">>, <<<<"G">>>>, <<s_q10>>, no_info, <<s_GT>>, <<g_01>>) }

InitBody ==
    /\ phase = "meta"
    /\ n_records = 0
    /\ source \in { read_header(EmptySource, h) : h \in HeaderPool }
    /\ n_lines \in { Len(h) : h \in HeaderPool }
    /\ \E h \in HeaderPool : source = read_header(EmptySource, h) /\ n_lines = Len(h)
    /\ well_defined_meta = {}
    /\ undefined_meta = {}
    /\ log = <<>>
    /\ last = [op |-> "none", record |-> NoRecord, thrown |-> NoError]
    /\ m_entry = [entry |-> MetaEntry(0, <<>>), version |-> "v41"]
    /\ m_result = Pending
    /\ r_args = NoRecordArgs
    /\ r_result = Pending

NextBody ==
    \/ EndMetaSection
    \/ \E r \in BodyRecordPool : ReadBodyLine(r)
    \/ EndBodySection

SpecBody == InitBody /\ [][NextBody]_vars

(***************************************************************************)
(* Vocabulary of the properties.                                           *)
(***************************************************************************)
\* a step in which optional_check_body_entry ran
BodyEntryStep == n_records' = n_records + 1

\* the ParsingState that call was given
CallState ==
    [n_lines |-> n_lines', source |-> source,
     well_defined_meta |-> well_defined_meta, undefined_meta |-> undefined_meta]

\* what the report sink received in the step
Emitted == SubSeq(log', Len(log) + 1, Len(log'))

\* what each of the nine checks, run on its own, throws for the record
Alone(state, record) ==
    << check_body_entry_ploidy(state, record).thrown,
       check_body_entry_position_zero(state, record).thrown,
       check_body_entry_id_commas(state, record).thrown,
       check_body_entry_reference_alternate_matching(state, record).thrown,
       check_contig_meta(state, record).thrown,
       check_alternate_allele_meta(state, record).thrown,
       check_filter_meta(state, record).thrown,
       check_info_meta(state, record).thrown,
       check_format_meta(state, record).thrown >>

IsError(d) == d # NoError

\* the diagnostics of the checks the record violates, in the order of the checks
Violated(state, record) == SelectSeq(Alone(state, record), IsError)

\* the column a cross-reference category is reported under
FieldOf(category) == IF category = s_contig THEN s_CHROM ELSE category

(***************************************************************************)
(* C1 (as stated): a record violating k of the nine checks makes           *)
(* optional_check_body_entry emit k diagnostics, one per violated check,   *)
(* in the order of the checks.                                             *)
(***************************************************************************)
C1_EveryViolationReported ==
    [][BodyEntryStep => Emitted = Violated(CallState, last'.record)]_vars

(***************************************************************************)
(* C1 (amended): the checks run in the listed order and the first one      *)
(* that fails ends the call: a record violating k >= 1 checks makes the    *)
(* call emit exactly one diagnostic, that of the first violated check; a   *)
(* record violating none emits nothing.                                    *)
(***************************************************************************)
C1_FirstViolationReported ==
    [][BodyEntryStep =>
          Emitted = IF Violated(CallState, last'.record) = <<>> THEN <<>>
                    ELSE <<Head(Violated(CallState, last'.record))>>]_vars

\* a record violating several checks was processed and one diagnostic came out
C1_Witness ==
    /\ last.op = "body_entry"
    /\ Len(Violated(ParsingState, last.record)) >= 3
    /\ last.thrown = Head(Violated(ParsingState, last.record))
    /\ log # <<>> /\ log[Len(log)] = last.thrown

(***************************************************************************)
(* C2 (as stated): over the records of one file, at most one               *)
(* NoMetaDefinitionError is emitted for any undeclared (category, id).     *)
(***************************************************************************)
C2_AtMostOncePerUndefinedId ==
    \A i, j \in 1..Len(log) :
        (/\ i < j
         /\ log[i].kind = "NoMetaDefinitionError"
         /\ log[j].kind = "NoMetaDefinitionError")
        => ~(log[i].field = log[j].field /\ log[i].value = log[j].value)

(***************************************************************************)
(* C3: once (category, id) is in well_defined_meta, no later call of       *)
(* optional_check_body_entry emits a NoMetaDefinitionError for it.         *)
(***************************************************************************)
C3_MemoizationMonotonicity ==
    [][\A i \in 1..Len(Emitted) :
           Emitted[i].kind = "NoMetaDefinitionError"
           => \A p \in well_defined_meta :
                  ~(FieldOf(p[1]) = Emitted[i].field /\ p[2] = Emitted[i].value)]_vars

\* a memoized id was referenced again by a record that failed on another id
C3_Witness ==
    /\ last.op = "body_entry"
    /\ n_records >= 2
    /\ last.thrown.kind = "NoMetaDefinitionError"
    /\ last.thrown.field = s_FILTER
    /\ <<s_FILTER, s_q10>> \in well_defined_meta
    /\ \E k \in 1..Len(last.record.filters) : last.record.filters[k] = s_q10

(***************************************************************************)
(* C4.  The record's format starts with GT, its samples agree on an allele *)
(* count, and that count is not the ploidy configured for its chromosome.  *)
(***************************************************************************)
PloidyMismatch(state, record) ==
    /\ Len(record.format) >= 1 /\ record.format[1] = s_GT
    /\ ploidy_of_samples(state, record, 1, 0).thrown = NoError
    /\ ploidy_of_samples(state, record, 1, 0).ploidy
           # get_ploidy(state.source.ploidy, record.chromosome)

CheckIndex(d) ==
    CASE d.kind = "SamplesFieldBodyError" -> 1
      [] d.kind = "PositionBodyError" -> 2
      [] d.kind = "IdBodyError" -> 3
      [] d.kind = "ReferenceAlleleBodyError" -> 4
      [] d.kind = "NoMetaDefinitionError" /\ d.field = s_CHROM -> 5
      [] d.kind = "NoMetaDefinitionError" /\ d.field = s_ALT -> 6
      [] d.kind = "NoMetaDefinitionError" /\ d.field = s_FILTER -> 7
      [] d.kind = "NoMetaDefinitionError" /\ d.field = s_INFO -> 8
      [] d.kind = "NoMetaDefinitionError" /\ d.field = s_FORMAT -> 9
      [] OTHER -> 0

C5_DiagnosticOrdering ==
    \A i, j \in 1..Len(log) :
        i < j => /\ log[i].line <= log[j].line
                 /\ (log[i].line = log[j].line /\ CheckIndex(log[i]) > 0)
                        => CheckIndex(log[i]) < CheckIndex(log[j])

\* diagnostics of two different body lines are in the log
C5_Witness ==
    \E i, j \in 1..Len(log) :
        /\ i < j
        /\ CheckIndex(log[i]) > 0 /\ CheckIndex(log[j]) > 0
        /\ log[i].line < log[j].line

(***************************************************************************)
(* C6: no (category, id) is in both well_defined_meta and undefined_meta.  *)
(***************************************************************************)
C6_MemoSetsDisjoint == well_defined_meta \cap undefined_meta = {}

\* ids of two categories have been memoized and the body section closed
C6_Witness ==
    /\ phase = "done"
    /\ \E p, q \in well_defined_meta : p[1] # q[1]

(***************************************************************************)
(* C7.  The happy-path scenario: a v4.1 header of exactly FORMAT GT, a     *)
(* reference entry and contig chr1, then the record                        *)
(* chr1 123456 id1 A T 1.0 PASS AN=12 GT 0|1 as the first body line.       *)
(***************************************************************************)
HappyHeader ==
    /\ source.version = "v41"
    /\ DOMAIN source.meta_entries = {s_FORMAT, s_reference, s_contig}
    /\ Len(source.meta_entries[s_FORMAT]) = 1
    /\ source.meta_entries[s_FORMAT][1].value.key_values
           = KeyValues4(s_GT, <<"1">>, s_String, s_d)
    /\ Len(source.meta_entries[s_reference]) = 1
    /\ Len(source.meta_entries[s_contig]) = 1
    /\ source.meta_entries[s_contig][1].value.key_values[s_ID] = s_chr1
    /\ get_ploidy(source.ploidy, s_chr1) = 2

HappyScenario ==
    /\ HappyHeader
    /\ n_lines = 4 /\ n_records = 1
    /\ last.op = "body_entry"
    /\ last.record = Record(s_chr1, 123456, <<<<"i", "d", "1">>>>, <<"A">>, <<<<"T">>>>,
                            <<s_PASS>>, <<<<s_AN, <<"1", "2">>>>>>, <<s_GT>>, <<g_01>>)

\* C7 (as stated): the scenario ends with zero diagnostics
C7_HappyPathNoDiagnostics == HappyScenario => log = <<>>

\* C7 (amended): the three header entries are constructed and the meta section
\* passes with no diagnostic, and optional_check_body_entry emits exactly one
\* diagnostic for the record: NoMetaDefinitionError, field INFO, value AN (the
\* header declares no INFO entry for AN).
C7_HappyPathUndeclaredInfo ==
    HappyScenario
    => /\ Len(log) = 1
       /\ log[1].kind = "NoMetaDefinitionError"
       /\ log[1].line = 4
       /\ log[1].field = s_INFO
       /\ log[1].value = s_AN
       /\ last.thrown = log[1]
       /\ well_defined_meta = {<<s_contig, s_chr1>>}

C7_Witness == HappyScenario

(***************************************************************************)
(* C8.  The indel scenario: contig chr1 is declared and the record is      *)
(* chr1 100 . AC GT 1.0 PASS . GT 0|1.                                     *)
(***************************************************************************)
Chr1Declared == is_record_subfield_in_header(s_chr1, equal_range(source.meta_entries, s_contig))

IndelScenario(alternate) ==
    /\ Chr1Declared
    /\ last.op = "body_entry"
    /\ last.record = Record(s_chr1, 100, <<>>, <<"A", "C">>, <<alternate>>,
                            <<s_PASS>>, no_info, <<s_GT>>, <<g_01>>)

\* C8 (as stated): the call emits exactly one ReferenceAlleleBodyError
C8_MnvRejected ==
    IndelScenario(<<"G", "T">>)
    => last.thrown.kind = "ReferenceAlleleBodyError" /\ log[Len(log)] = last.thrown

\* C8 (amended): AC -> GT has the reference's length, so it is an MNV and the
\* indel check does not apply: no ReferenceAlleleBodyError is emitted for it.
\* Exactly one is emitted when the alternate's length differs from the
\* reference's (an INDEL, e.g. AC -> G) and their first nucleotides differ.
C8_OnlyIndelsRejected ==
    /\ IndelScenario(<<"G", "T">>)
       => /\ last.record.types = <<"MNV">>
          /\ last.thrown.kind # "ReferenceAlleleBodyError"
    /\ IndelScenario(<<"G">>)
       => /\ last.record.types = <<"INDEL">>
          /\ last.thrown.kind = "ReferenceAlleleBodyError"
          /\ last.thrown.line = n_lines
          /\ log[Len(log)] = last.thrown

C8_Witness == IndelScenario(<<"G", "T">>) /\ source.meta_entries # EmptyMap

(***************************************************************************)
(* C9.  A FORMAT key-value entry built against a v4.1 Source, with the     *)
(* four keys, a Number of digits or A/R/G/., a Type among the four FORMAT  *)
(* types, and the Type the v4.1/v4.2 table lists for its ID.               *)
(***************************************************************************)
C9_Entry ==
    LET value == m_entry.entry.value.key_values
    IN /\ m_entry.version = "v41"
       /\ m_entry.entry.structure = "KeyValue"
       /\ m_entry.entry.id = s_FORMAT
       /\ {s_ID, s_Number, s_Type, s_Description} \subseteq DOMAIN value
       /\ \/ \A i \in 1..Len(value[s_Number]) : isdigit(value[s_Number][i])
          \/ value[s_Number] \in {<<"A">>, <<"R">>, <<"G">>, s_dot}
       /\ value[s_Type] \in {s_Integer, s_Float, s_Character, s_String}
       /\ value[s_ID] \in DOMAIN format_v41_v42
       /\ value[s_Type] = format_v41_v42[value[s_ID]][1]

\* C9 (as stated): construction of such an entry succeeds
C9_TypeMatchSuffices == (m_result # Pending /\ C9_Entry) => m_result = NoError

\* the entry's Number agrees with the table: the table's cell is "." or equal
C9_NumberMatches ==
    LET value == m_entry.entry.value.key_values
        expected == format_v41_v42[value[s_ID]][2]
    IN expected = s_dot \/ expected = value[s_Number]

\* C9 (amended): construction of such an entry succeeds if and only if its
\* Number also agrees with the table (the table's Number is "." or equal to the
\* entry's); otherwise it fails with
\* "FORMAT <id> metadata Number is not <expected>".
C9_TypeAndNumberMatch ==
    (m_result # Pending /\ C9_Entry)
    => IF C9_NumberMatches THEN m_result = NoError
       ELSE /\ m_result.kind = "MetaSectionError"
            /\ m_result.line = m_entry.entry.line
            /\ m_result.message.args[3] = s_Number

\* an entry whose table row leaves Number free was built with another Number
C9_Witness ==
    /\ m_result = NoError
    /\ C9_Entry
    /\ format_v41_v42[m_entry.entry.value.key_values[s_ID]][2] = s_dot
    /\ m_entry.entry.value.key_values[s_Number] = <<"2">>

(***************************************************************************)
(* C10: optional_check_meta_section throws MetaSectionError("A valid       *)
(* 'reference' entry is not listed in the meta section") at line           *)
(* state.n_lines if and only if no entry is stored under "reference";      *)
(* otherwise it emits nothing.  It changes no state.                       *)
(***************************************************************************)
C10_ReferenceRequired ==
    last.op = "meta_section"
    => /\ last.thrown =
              IF equal_range(source.meta_entries, s_reference) = <<>>
              THEN MetaSectionError(n_lines,
                       Message("A valid 'reference' entry is not listed in the meta section",
                               <<>>))
              ELSE NoError
       /\ last.thrown # NoError => log[Len(log)] = last.thrown
       /\ last.thrown = NoError
              => \A i \in 1..Len(log) :
                     log[i].message.text
                         # "A valid 'reference' entry is not listed in the meta section"
       /\ well_defined_meta = {} /\ undefined_meta = {}

\* the header closed without a reference entry, other entries being present
C10_Witness ==
    /\ last.op = "meta_section"
    /\ last.thrown.kind = "MetaSectionError"
    /\ source.meta_entries # EmptyMap

(***************************************************************************)
(* C11: a MetaEntry of PlainValue shape is built if and only if its string *)
(* holds no line break; with a line break the constructor throws           *)
(* MetaSectionError at the entry's line.  So a built PlainValue entry      *)
(* never holds '\n'.                                                       *)
(***************************************************************************)
C11_PlainValueNoLineBreak ==
    (m_result # Pending /\ m_entry.entry.structure = "PlainValue")
    => LET value == m_entry.entry.value.plain
       IN IF \E i \in 1..Len(value) : value[i] = "\n"
          THEN /\ m_result.kind = "MetaSectionError"
               /\ m_result.line = m_entry.entry.line
               /\ m_result.message.text = "Metadata value contains a line break"
          ELSE m_result = NoError

\* a plain value with a line break in its middle was refused
C11_Witness ==
    /\ m_entry.entry.structure = "PlainValue"
    /\ m_entry.entry.value.plain = <<"a", "\n", "b">>
    /\ m_result # Pending /\ m_result # NoError

(***************************************************************************)
(* C12.  The kinds of diagnostic of the properties the arguments of a      *)
(* Record violate: whitespace or ':' in the chromosome, whitespace in an   *)
(* id, an alternate equal to the reference, a negative quality and, under  *)
(* v4.3, duplicate ids or duplicate format fields.                         *)
(***************************************************************************)
C12_ViolatedKinds ==
    LET a == r_args.args
    IN (IF \E i \in 1..Len(a.chromosome) : isspace(a.chromosome[i]) \/ a.chromosome[i] = ":"
        THEN {"ChromosomeBodyError"} ELSE {})
       \cup (IF \E k \in 1..Len(a.ids) : \E i \in 1..Len(a.ids[k]) : isspace(a.ids[k][i])
            THEN {"IdBodyError"} ELSE {})
       \cup (IF \E i \in 1..Len(a.alternate_alleles) : a.alternate_alleles[i] = a.reference_allele
            THEN {"AlternateAllelesBodyError"} ELSE {})
       \cup (IF ~a.quality.missing /\ a.quality.value < 0 THEN {"QualityBodyError"} ELSE {})
       \cup (IF r_args.version = "v43" /\ \E i, j \in 1..Len(a.ids) : i < j /\ a.ids[i] = a.ids[j]
            THEN {"IdBodyError"} ELSE {})
       \cup (IF r_args.version = "v43"
                /\ \E i, j \in 1..Len(a.format) : i < j /\ a.format[i] = a.format[j]
            THEN {"FormatBodyError"} ELSE {})

\* C12: a Record that is built violates none of these properties; arguments
\* that violate some of them make construction fail, at the record's line, with
\* the diagnostic of a violated property (of the violated one when there is one).
C12_RecordInvariants ==
    r_result # Pending
    => /\ r_result = NoError => C12_ViolatedKinds = {}
       /\ C12_ViolatedKinds # {}
              => /\ r_result.kind \in C12_ViolatedKinds
                 /\ r_result.line = r_args.args.line

\* under v4.3 a record whose only fault is a duplicate id was refused
C12_Witness ==
    /\ r_args.version = "v43"
    /\ r_args.args.ids = <<s_id1, s_id1>>
    /\ C12_ViolatedKinds = {"IdBodyError"}
    /\ r_result # Pending /\ r_result # NoError

(***************************************************************************)
(* C13.  The place of GT in the format of a Record, under every version.   *)
(***************************************************************************)
\* GT is in the format at an index other than 0
C13_GtAfterFirst == \E i \in 2..Len(r_args.args.format) : r_args.args.format[i] = s_GT

\* GT is in the format and it is not format[0]
C13_GtNotFirst ==
    /\ \E i \in 1..Len(r_args.args.format) : r_args.args.format[i] = s_GT
    /\ r_args.args.format[1] # s_GT

\* the checks the constructor runs before it looks at the format all pass
C13_EarlierChecksPass ==
    /\ Record_check_chromosome(r_args.args, r_args.version) = NoError
    /\ Record_check_ids(r_args.args, r_args.version) = NoError
    /\ Record_check_alternate_alleles(r_args.args, r_args.version) = NoError
    /\ Record_check_quality(r_args.args, r_args.version) = NoError

C14_AlleleCount(record, i) ==
    Len(string_split(string_split(record.samples[i], {":"})[1], {"|", "/"}))

\* the samples after the first whose allele count is not the first sample's
C14_Differing(record) ==
    {i \in 2..Len(record.samples) : C14_AlleleCount(record, i) # C14_AlleleCount(record, 1)}

\* C14: for a record whose format starts with GT, the call throws a
\* SamplesFieldBodyError with field GT and the first sample's allele count as
\* expected value if and only if a later sample has another allele count, and
\* the message then numbers the first such sample from 1; for a record whose
\* format is empty or starts with another field no SamplesFieldBodyError is
\* thrown.
C14_SampleConsistency ==
    last.op = "body_entry"
    => LET record == last.record
           differing == C14_Differing(record)
           first == CHOOSE i \in differing : \A j \in differing : i <= j
       IN IF Len(record.format) >= 1 /\ record.format[1] = s_GT
          THEN /\ differing # {}
                  <=> /\ last.thrown.kind = "SamplesFieldBodyError"
                      /\ last.thrown.field = s_GT
                      /\ Len(record.samples) >= 1
                      /\ last.thrown.expected = C14_AlleleCount(record, 1)
               /\ differing # {}
                  => /\ last.thrown.line = n_lines
                     /\ last.thrown.message.text
                            = "Sample #% has % allele(s), but % were found in others"
                     /\ last.thrown.message.args
                            = << to_string(first),
                                 to_string(C14_AlleleCount(record, first)),
                                 to_string(C14_AlleleCount(record, 1)) >>
                     /\ log[Len(log)] = last.thrown
          ELSE last.thrown.kind # "SamplesFieldBodyError"

\* three samples, the second agreeing with the first and the third not
C14_Witness ==
    /\ last.op = "body_entry"
    /\ last.record.samples = <<g_01, g_01, g_0>>
    /\ last.thrown.kind = "SamplesFieldBodyError"
    /\ last.thrown.message.args[1] = <<"3">>

(***************************************************************************)
(* C15.  The ids a record refers to, as <<category, id>>, in the order the *)
(* checks look them up: its chromosome, the ids of its <...> alternates,   *)
(* its filters other than PASS and ".", its INFO keys other than "." and   *)
(* its format fields.                                                      *)
(***************************************************************************)
C15_Tagged(category, ids) == [i \in 1..Len(ids) |-> <<category, ids[i]>>]

C15_NotFilterSentinel(x) == x # s_PASS /\ x # s_dot

C15_NotInfoSentinel(x) == x # s_dot

C15_Keys(info) == [i \in 1..Len(info) |-> info[i][1]]

C15_AltIds(record) ==
    LET matching == SelectSeq(record.alternate_alleles, square_brackets_regex_match)
    IN [i \in 1..Len(matching) |-> square_brackets_group(matching[i])]

C15_References(record) ==
    <<<<s_contig, record.chromosome>>>>
    \o C15_Tagged(s_ALT, C15_AltIds(record))
    \o C15_Tagged(s_FILTER, SelectSeq(record.filters, C15_NotFilterSentinel))
    \o C15_Tagged(s_INFO, SelectSeq(C15_Keys(record.info), C15_NotInfoSentinel))
    \o C15_Tagged(s_FORMAT, record.format)

\* some entry stored under the category is a key-value entry with that ID
C15_Declared(meta_entries, p) ==
    /\ p[1] \in DOMAIN meta_entries
    /\ \E i \in 1..Len(meta_entries[p[1]]) :
           /\ meta_entries[p[1]][i].structure = "KeyValue"
           /\ s_ID \in DOMAIN meta_entries[p[1]][i].value.key_values
           /\ meta_entries[p[1]][i].value.key_values[s_ID] = p[2]

C16_IsBracketedId(alternate, id) ==
    /\ alternate = <<"<">> \o id \o <<">">>
    /\ id # <<>>
    /\ \A i \in 1..Len(id) : id[i] \in square_brackets_class

\* the ids of the alternates of that form, in the record's order
C16_Ids(record) ==
    LET inner(a) == SubSeq(a, 2, Len(a) - 1)
        bracketed(a) == Len(a) >= 2 /\ C16_IsBracketedId(a, inner(a))
        kept == SelectSeq(record.alternate_alleles, bracketed)
    IN [i \in 1..Len(kept) |-> inner(kept[i])]

\* C16: only the alternates of the form <id> are looked up, under "ALT" and by
\* the text between the brackets: when the five checks before it pass, the
\* first such id that is neither in well_defined_meta nor declared by an ALT
\* entry is reported (NoMetaDefinitionError, field ALT, value id) and the ids
\* looked up before it are memoized as ("ALT", id).  Whatever the call does, an
\* alternate that is not of that form is never memoized and never reported.
C16_AlternateLookup ==
    [][BodyEntryStep
       => LET record == last'.record
              ids == C16_Ids(record)
              missing == {k \in 1..Len(ids) :
                             /\ <<s_ALT, ids[k]>> \notin well_defined_meta
                             /\ ~C15_Declared(source.meta_entries, <<s_ALT, ids[k]>>)}
              stop == IF missing = {} THEN Len(ids) + 1
                      ELSE CHOOSE k \in missing : \A j \in missing : k <= j
              added == {p \in well_defined_meta' \ well_defined_meta : p[1] = s_ALT}
          IN /\ \A p \in added : \E k \in 1..Len(ids) : ids[k] = p[2]
             /\ \A i \in 1..Len(Emitted) :
                    (Emitted[i].kind = "NoMetaDefinitionError" /\ Emitted[i].field = s_ALT)
                    => \E k \in 1..Len(ids) : ids[k] = Emitted[i].value
             /\ (\A k \in 1..5 : Alone(CallState, record)[k] = NoError)
                    => /\ added = {<<s_ALT, ids[j]>> : j \in 1..(stop - 1)} \ well_defined_meta
                       /\ missing # {}
                              => /\ Len(Emitted) = 1
                                 /\ Emitted[1].kind = "NoMetaDefinitionError"
                                 /\ Emitted[1].field = s_ALT
                                 /\ Emitted[1].value = ids[stop]
                       /\ missing = {}
                              => \A i \in 1..Len(Emitted) : Emitted[i].field # s_ALT]_vars

\* a record whose alternates are <>, <D-L>, <DEL (not of the form) and <DUP>,
\* which no ALT entry declares, was processed: DUP was reported
C16_Witness ==
    /\ last.op = "body_entry"
    /\ Len(last.record.alternate_alleles) = 4
    /\ last.record.alternate_alleles[1] = <<"<", ">">>
    /\ last.thrown.kind = "NoMetaDefinitionError"
    /\ last.thrown.field = s_ALT
    /\ last.thrown.value = <<"D", "U", "P">>

(***************************************************************************)
(* C17.  A FORMAT or INFO key-value entry that passes the schema checks    *)
(* (the four keys, a Number of digits or A/R/G/., a Type of its tag), and  *)
(* the predefined table its version selects.                               *)
(***************************************************************************)
C17_PassesSchema ==
    LET value == m_entry.entry.value.key_values
    IN /\ m_entry.entry.structure = "KeyValue"
       /\ m_entry.entry.id \in {s_FORMAT, s_INFO}
       /\ {s_ID, s_Number, s_Type, s_Description} \subseteq DOMAIN value
       /\ \/ \A i \in 1..Len(value[s_Number]) : isdigit(value[s_Number][i])
          \/ value[s_Number] \in {<<"A">>, <<"R">>, <<"G">>, s_dot}
       /\ value[s_Type] \in {s_Integer, s_Float, s_Character, s_String}
                              \cup (IF m_entry.entry.id = s_INFO THEN {s_Flag} ELSE {})

C17_Table ==
    IF m_entry.entry.id = s_FORMAT
    THEN (IF m_entry.version \in {"v41", "v42"} THEN format_v41_v42 ELSE format_v43)
    ELSE (IF m_entry.version \in {"v41", "v42"} THEN info_v41_v42 ELSE info_v43)

C17_IsNot(key_field, expected) ==
    MetaSectionError(m_entry.entry.line,
        Message("% % metadata % is not %",
                <<m_entry.entry.id, m_entry.entry.value.key_values[s_ID], key_field, expected>>))

\* C17: such an entry is refused with "<tag> <id> metadata <key_field> is not
\* <expected>" if and only if its ID is in the table of its version (v4.1 and
\* v4.2: one table, v4.3: another) and the table's Type, or else its Number, is
\* not "." and differs from the entry's; Type is tested first, so the Type
\* message is the one reported when both differ.  An entry whose ID is not in
\* the table is built.  No other entry is refused with that message.
C17_PredefinedTag ==
    m_result # Pending
    => LET value == m_entry.entry.value.key_values
           row == C17_Table[value[s_ID]]
       IN /\ C17_PassesSchema
                => m_result =
                       IF value[s_ID] \notin DOMAIN C17_Table THEN NoError
                       ELSE IF row[1] # s_dot /\ row[1] # value[s_Type]
                       THEN C17_IsNot(s_Type, row[1])
                       ELSE IF row[2] # s_dot /\ row[2] # value[s_Number]
                       THEN C17_IsNot(s_Number, row[2])
                       ELSE NoError
          /\ (m_result # NoError /\ m_result.message.text = "% % metadata % is not %")
                => C17_PassesSchema /\ value[s_ID] \in DOMAIN C17_Table

\* an entry differing from its table row in Type and in Number was refused for
\* its Type
C17_Witness ==
    /\ C17_PassesSchema
    /\ m_entry.entry.value.key_values[s_ID] \in DOMAIN C17_Table
    /\ C17_Table[m_entry.entry.value.key_values[s_ID]][1]
           # m_entry.entry.value.key_values[s_Type]
    /\ C17_Table[m_entry.entry.value.key_values[s_ID]][2]
           \notin {s_dot, m_entry.entry.value.key_values[s_Number]}
    /\ m_result # Pending /\ m_result # NoError
    /\ m_result.message.args[3] = s_Type

(***************************************************************************)
(* C18.  The schema of a FORMAT or INFO key-value entry.                   *)
(***************************************************************************)
\* the required keys the entry lacks, in the order ID, Number, Type, Description
C18_Absent ==
    LET required == <<s_ID, s_Number, s_Type, s_Description>>
        absent(k) == k \notin DOMAIN m_entry.entry.value.key_values
    IN SelectSeq(required, absent)

C18_NumberAllowed(number) ==
    \/ \A i \in 1..Len(number) : number[i] \in {"0", "1", "2", "3", "4", "5", "6", "7", "8", "9"}
    \/ number \in {<<"A">>, <<"R">>, <<"G">>, <<".">>}

C18_TypesAllowed ==
    IF m_entry.entry.id = s_INFO
    THEN {s_Integer, s_Float, s_Flag, s_Character, s_String}
    ELSE {s_Integer, s_Float, s_Character, s_String}

\* C18: construction of such an entry fails with MetaSectionError, at the
\* entry's line, for the first of ID, Number, Type, Description that is absent;
\* else for a Number that is neither all digits nor A, R, G or "."; else for a
\* Type outside {Integer, Float, Character, String}, to which INFO adds Flag;
\* else the schema raises nothing (only the predefined-tag check can still
\* refuse the entry).
C18_SchemaCheck ==
    (/\ m_result # Pending
     /\ m_entry.entry.structure = "KeyValue"
     /\ m_entry.entry.id \in {s_FORMAT, s_INFO})
    => LET value == m_entry.entry.value.key_values
           tag == m_entry.entry.id
       IN IF C18_Absent # <<>>
          THEN m_result = MetaSectionError(m_entry.entry.line,
                              Message("% metadata does not contain a field called '%'",
                                      <<tag, Head(C18_Absent)>>))
          ELSE IF ~C18_NumberAllowed(value[s_Number])
          THEN /\ m_result.kind = "MetaSectionError"
               /\ m_result.line = m_entry.entry.line
               /\ m_result.message.text
                      = IF tag = s_FORMAT
                        THEN "FORMAT metadata Number is not a number, A, R, G or dot"
                        ELSE "INFO metadata Number is not a number, A, R, G or dot"
          ELSE IF value[s_Type] \notin C18_TypesAllowed
          THEN /\ m_result.kind = "MetaSectionError"
               /\ m_result.line = m_entry.entry.line
               /\ m_result.message.text
                      = IF tag = s_FORMAT
                        THEN "FORMAT metadata Type is not a Integer, Float, Character or String"
                        ELSE "INFO metadata Type is not a Integer, Float, Flag, Character or String"
          ELSE \/ m_result = NoError
               \/ m_result.message.text = "% % metadata % is not %"

\* a FORMAT entry with the four keys, a good Number and Type=Flag was refused
\* for its Type
C18_Witness ==
    /\ m_entry.entry.structure = "KeyValue"
    /\ m_entry.entry.id = s_FORMAT
    /\ C18_Absent = <<>>
    /\ C18_NumberAllowed(m_entry.entry.value.key_values[s_Number])
    /\ m_entry.entry.value.key_values[s_Type] = s_Flag
    /\ m_result # Pending /\ m_result # NoError
    /\ m_result.message.text
           = "FORMAT metadata Type is not a Integer, Float, Character or String"

(***************************************************************************)
(* C19: well_defined_meta only grows, and a pair enters it only when, at   *)
(* that moment, an entry stored under its category in the Source has its   *)
(* id as ID; an id the header does not declare is never added.             *)
(***************************************************************************)
C19_MemoSoundAndGrowing ==
    [][/\ well_defined_meta \subseteq well_defined_meta'
       /\ \A p \in well_defined_meta' \ well_defined_meta :
              /\ p[1] \in {s_contig, s_ALT, s_FILTER, s_INFO, s_FORMAT}
              /\ C15_Declared(source.meta_entries, p)
              /\ BodyEntryStep
              /\ \E k \in 1..Len(C15_References(last'.record)) :
                     C15_References(last'.record)[k] = p]_vars

\* a call that failed on an undeclared id after memoizing declared ones, the
\* memo holding pairs from an earlier call as well
C19_Witness ==
    /\ last.op = "body_entry"
    /\ n_records >= 2
    /\ last.thrown.kind = "NoMetaDefinitionError"
    /\ Cardinality(well_defined_meta) >= 3
    /\ \E p \in well_defined_meta :
           \A k \in 1..Len(C15_References(last.record)) : C15_References(last.record)[k] # p

C21_Outcome(thrown) ==
    IF thrown = NoError THEN <<"none">>
    ELSE <<thrown.kind, thrown.field, thrown.value>>

\* the ParsingState of the call, its memo emptied
C21_FreshState == [CallState EXCEPT !.well_defined_meta = {}]

\* the references of the record that are in the memo
C21_Memoized(record) ==
    {k \in 1..Len(C15_References(record)) : C15_References(record)[k] \in well_defined_meta}

(***************************************************************************)
(* C21: memoization is transparent.  For every record, the outcome of      *)
(* optional_check_body_entry (none, or the kind, field and value of the    *)
(* diagnostic) run with the well_defined_meta accumulated from the earlier *)
(* records equals its outcome run with an empty well_defined_meta, the     *)
(* header entries staying in the Source.                                   *)
(***************************************************************************)
C21_MemoTransparent ==
    [][BodyEntryStep =>
          /\ optional_check_body_entry(CallState, last'.record).thrown = last'.thrown
          /\ C21_Outcome(last'.thrown)
                 = C21_Outcome(optional_check_body_entry(C21_FreshState, last'.record).thrown)]_vars

\* the second record passes on the contig its predecessor memoized: the first
\* record got as far as the FILTER look-up, so its contig was memoized, and the
\* memo holds one contig only
C21_Witness ==
    /\ last.op = "body_entry"
    /\ n_records = 2
    /\ last.thrown = NoError
    /\ \E k \in 1..Len(log) :
           /\ log[k].line = n_lines - 1
           /\ log[k].kind = "NoMetaDefinitionError"
           /\ log[k].field = s_FILTER
    /\ Cardinality({p \in well_defined_meta : p[1] = s_contig}) = 1
    /\ Cardinality(C21_Memoized(last.record)) >= 2

\* the look-ups of the record that fail: neither memoized nor declared
C22_Missing(record) ==
    {k \in 1..Len(C15_References(record)) :
        /\ C15_References(record)[k] \notin well_defined_meta
        /\ ~C15_Declared(source.meta_entries, C15_References(record)[k])}

C22_First(record) ==
    CHOOSE j \in C22_Missing(record) : \A k \in C22_Missing(record) : j <= k

\* the category a diagnostic's column stands for
C22_CategoryOf(field) == IF field = s_CHROM THEN s_contig ELSE field

(***************************************************************************)
(* C22: no rollback on failure.  A call of optional_check_body_entry that  *)
(* fails at the ploidy, position-zero, ID-comma or indel check leaves      *)
(* well_defined_meta unchanged; a call that fails at a cross-reference     *)
(* check extends well_defined_meta by exactly the declared ids of the      *)
(* record examined before the failing id, in check order and element       *)
(* order, and by none positioned after it; no later step removes them.     *)
(***************************************************************************)
C22_NoRollback ==
    [][/\ well_defined_meta \subseteq well_defined_meta'
       /\ (BodyEntryStep /\ last'.thrown # NoError) =>
             /\ last'.thrown.kind \in {"SamplesFieldBodyError", "PositionBodyError", "IdBodyError",
                                       "ReferenceAlleleBodyError", "NoMetaDefinitionError"}
             /\ last'.thrown.kind # "NoMetaDefinitionError"
                    => well_defined_meta' = well_defined_meta
             /\ last'.thrown.kind = "NoMetaDefinitionError" =>
                    /\ C22_Missing(last'.record) # {}
                    /\ LET refs == C15_References(last'.record)
                           j == C22_First(last'.record)
                       IN /\ refs[j] = <<C22_CategoryOf(last'.thrown.field), last'.thrown.value>>
                          /\ \A k \in 1..(j - 1) : C15_Declared(source.meta_entries, refs[k])
                          /\ well_defined_meta'
                                 = well_defined_meta \cup {refs[k] : k \in 1..(j - 1)}]_vars

\* the first record failed at its FILTER look-up: its contig, examined before,
\* is memoized and its declared FORMAT field, positioned after, is not
C22_Witness ==
    /\ last.op = "body_entry"
    /\ n_records = 1
    /\ last.thrown.kind = "NoMetaDefinitionError"
    /\ last.thrown.field = s_FILTER
    /\ <<s_contig, last.record.chromosome>> \in well_defined_meta
    /\ Len(last.record.format) >= 1
    /\ C15_Declared(source.meta_entries, <<s_FORMAT, last.record.format[1]>>)
    /\ <<s_FORMAT, last.record.format[1]>> \notin well_defined_meta

====
